---- MODULE Spec2Model ----
(***************************************************************************)
(* A model of the NDAX decoder of riorizki/LimeNDAX:                       *)
(*   src/src/NDAX_decoder/ndax_basic.py      record decode and validators  *)
(*   src/src/NDAX_decoder/ndax_functions.py  archive decode (to_df)        *)
(*                                                                         *)
(* Numbers are fixed-point integers, so that the float arithmetic of the   *)
(* code is exact in the model:                                             *)
(*   Time           milliseconds        (the code holds Time/1000 seconds) *)
(*   Timestamp      whole seconds since an arbitrary origin                *)
(*   Voltage        1e-4 V              (the code holds Voltage/10000 V)   *)
(*   Current        1e-8 A                                                 *)
(*   Capacity       1e-8 Ah,   Energy       1e-8 Wh                        *)
(*   capacity_nom   1e-8 Ah                                                *)
(***************************************************************************)
EXTENDS Integers, Sequences, FiniteSets, TLC

VARIABLES
    df_in,      \* validators, fabricate: the series handed to the function
    df,         \* validators: the series as the function leaves it
    op,         \* validators: "input", or the function that has run
    args,       \* validators: the other arguments of the call
    verdict,    \* validators: what the function returned ("none" before)
    bytes,      \* byte_to_list, to_df: the record read last
    decoded,    \* byte_to_list: what the call returned or raised
    mm,         \* to_df: the layout of the memory-mapped data.ndc
    include_aux,\* to_df: the include_aux argument
    header,     \* to_df: position of the synchronization match, -1 for none
    reads,      \* to_df: number of records read so far
    output,     \* to_df: the primary rows decoded so far
    aux,        \* to_df: the auxiliary rows decoded so far
    warnings,   \* to_df: the marker bytes logged as unknown record types
    spc,        \* to_df: "idle", "scan", "done" or "raised"
    sdf,        \* to_df: the returned DataFrame
    npc,        \* to_df, three streams: the decoder call to make next
    ndc_files,  \* to_df, three streams: the streams read so far
    ndc_frames, \* to_df, three streams: what each decoder call returned
    os_name,    \* working directory: os.name, "nt" or "posix"
    temdata,    \* working directory: the files of ./temdata
    call,       \* working directory: the call that ended last
    calls       \* working directory: the number of calls made

valVars == <<df_in, df, op, args, verdict>>
decVars == <<bytes, decoded>>
scanVars == <<mm, include_aux, header, reads, output, aux, warnings, spc, sdf>>
ndcVars == <<npc, ndc_files, ndc_frames>>
fsVars == <<os_name, temdata, call, calls>>
vars == <<valVars, decVars, scanVars, ndcVars, fsVars>>

----------------------------------------------------------------------------
(* Helpers over sequences of integers.                                     *)

Abs(x) == IF x < 0 THEN -x ELSE x

Column(d, f) == [i \in 1..Len(d) |-> d[i][f]]

\* pandas Series.min() over a non-empty column
SeqMin(s) == CHOOSE m \in {s[i] : i \in 1..Len(s)} : \A i \in 1..Len(s) : m <= s[i]

\* pandas Series.max() over a non-empty column
SeqMax(s) == CHOOSE m \in {s[i] : i \in 1..Len(s)} : \A i \in 1..Len(s) : m >= s[i]

\* pandas Series.is_monotonic_increasing: non-decreasing, equal neighbours allowed
IsMonotonicIncreasing(s) == \A i \in 2..Len(s) : s[i-1] <= s[i]

----------------------------------------------------------------------------
(* ndax_basic.validate_timegap                                             *)

TimegapSeconds == 5

\* the row mask of validate_timegap; the first row has no previous row, its
\* shifted values are NaN and every comparison with NaN is False
TimegapMask(d, i) ==
    /\ i > 1
    /\ Abs((d[i].Time - d[i-1].Time) - 1000 * (d[i].Timestamp - d[i-1].Timestamp))
           > 1000 * TimegapSeconds
    /\ d[i].Step = d[i-1].Step
    /\ d[i].Time # 0

\* the value validate_timegap assigns to the masked rows
TimegapFlag == TRUE

validate_timegap(d) ==
    [i \in 1..Len(d) |->
        IF TimegapMask(d, i) THEN [d[i] EXCEPT !.Validated = TimegapFlag] ELSE d[i]]

----------------------------------------------------------------------------
(* ndax_basic.validator_fab and ndax_basic.main_validator                  *)

\* df["Step"] == "Rest": Step is an integer column; pandas compares an integer
\* with a str elementwise as unequal
StepEqualsLabel(step, label) == FALSE

\* the Rest rule both validators apply after the pre-pass
RestMask(d, i) ==
    /\ StepEqualsLabel(d[i].Step, "Rest")
    /\ d[i]["Current"] = 0
    /\ d[i].Time # 0

RestRule(d) ==
    [i \in 1..Len(d) |->
        IF RestMask(d, i) THEN [d[i] EXCEPT !.Validated = FALSE] ELSE d[i]]

\* False in df.Validated.values
HasFalse(d) == \E i \in 1..Len(d) : ~d[i].Validated

\* the three structural checks shared by the two profiles
StructureOk(d) ==
    /\ SeqMin(Column(d, "Index")) = 1
    /\ IsMonotonicIncreasing(Column(d, "Index"))
    /\ SeqMin(Column(d, "Cycle")) = 1
    /\ SeqMin(Column(d, "Step")) = 1
    /\ IsMonotonicIncreasing(Column(d, "Step"))

\* validator_fab: [df |-> the series as left, ret |-> the returned value];
\* the function body ends after the Step check without a return statement
validator_fab(d) ==
    LET d1 == validate_timegap(d)
        d2 == RestRule(d1)
    IN  IF HasFalse(d1) THEN [df |-> d1, ret |-> "False"]
        ELSE IF ~StructureOk(d2) THEN [df |-> d2, ret |-> "False"]
        ELSE [df |-> d2, ret |-> "None"]

VoltageFloor == 20000
CapacityFactor == 1500
CurrentFactor == 1600
BarcodeLength == 12

NoSIM(d) == \A i \in 1..Len(d) : d[i].Status # "SIM"

\* the provenance checks, made when the three metadata columns are present
MetaOk(meta) ==
    \/ ~meta.present
    \/ /\ ~meta.process_illegal
       /\ ~meta.start_illegal
       /\ ~meta.barcode_illegal
       /\ meta.barcode_len = BarcodeLength

\* main_validator; cols names the capacity and energy columns of the series:
\* "charge" for Charge_Capacity(Ah), Charge_Energy(Wh), "canonical" for
\* Capacity(Ah), Energy(Wh) (rec_columns), which main_validator does not read
main_validator(d, capacity_nom, cols, meta) ==
    LET d1 == validate_timegap(d)
        d2 == RestRule(d1)
    IN  IF HasFalse(d1) THEN [df |-> d1, ret |-> "False"]
        ELSE IF ~StructureOk(d2) THEN [df |-> d2, ret |-> "False"]
        ELSE IF SeqMin(Column(d2, "Voltage")) < VoltageFloor /\ NoSIM(d2)
            THEN [df |-> d2, ret |-> "False"]
        ELSE IF cols # "charge" THEN [df |-> d2, ret |-> "KeyError"]
        ELSE IF SeqMin(Column(d2, "Energy")) < 0 /\ NoSIM(d2)
            THEN [df |-> d2, ret |-> "False"]
        ELSE IF SeqMin(Column(d2, "Capacity")) < 0 /\ NoSIM(d2)
            THEN [df |-> d2, ret |-> "False"]
        ELSE IF SeqMax(Column(d2, "Capacity")) > CapacityFactor * capacity_nom
            THEN [df |-> d2, ret |-> "False"]
        ELSE IF SeqMax(Column(d2, "Current")) > CurrentFactor * capacity_nom
            THEN [df |-> d2, ret |-> "False"]
        ELSE IF ~MetaOk(meta) THEN [df |-> d2, ret |-> "False"]
        ELSE [df |-> d2, ret |-> "True"]

----------------------------------------------------------------------------
(* ndax_basic.state_dict, multiplier_dict, single_validator, byte_to_list  *)
(*                                                                         *)
(* A record (the bytes read by the scan) is modelled by the fields that    *)
(* struct.unpack slices out of it: Index, Cycle, Step, Status, Time,       *)
(* Voltage, Current, the four cumulative counters, Date (the packed date   *)
(* as seconds, InvalidDate when datetime() rejects it), Range, b3 and T    *)
(* (bytes 3 and 41:43, read by the auxiliary decoders), and length, the    *)
(* number of bytes mm.read returned.                                       *)

state_dict ==
    (1 :> "CC_Chg") @@ (2 :> "CC_Dchg") @@ (3 :> "CV_Chg") @@ (4 :> "Rest")
    @@ (5 :> "Cycle") @@ (7 :> "CCCV_Chg") @@ (8 :> "CP_Dchg") @@ (9 :> "CP_Chg")
    @@ (10 :> "CR_Dchg") @@ (13 :> "Pause") @@ (16 :> "Pulse") @@ (17 :> "SIM")
    @@ (19 :> "CV_Dchg") @@ (20 :> "CCCV_Dchg") @@ (21 :> "Control")
    @@ (26 :> "CPCV_Dchg") @@ (27 :> "CPCV_Chg")

\* multiplier_dict with the entry of range -1 set to 1e-4
multiplier_dict_wrong_entry ==
    (-500 :> 100) @@ (-100 :> 100) @@ (-50 :> 10) @@ (-25 :> 10) @@ (-1 :> 10)
    @@ (0 :> 0) @@ (10 :> 100) @@ (100 :> 1000) @@ (112 :> 1000) @@ (200 :> 1000)
    @@ [r \in {-300000, -200000, -100000, -60000, -30000, -50000, -20000, -12000,
               -10000, -6000, -5000, -3000, -2000, -1000} |-> 1000]
    @@ [r \in {1000, 6000, 10000, 12000, 50000, 60000, 100000} |-> 10000]

\* the multipliers in units of 1e-5: 1e-2 is 1000, 1e-3 is 100, 1e-4 is 10,
\* 1e-5 is 1, 1e-1 is 10000
multiplier_dict ==
    (-300000 :> 1000) @@ (-200000 :> 1000) @@ (-100000 :> 1000) @@ (-60000 :> 1000)
    @@ (-30000 :> 1000) @@ (-50000 :> 1000) @@ (-20000 :> 1000) @@ (-12000 :> 1000)
    @@ (-10000 :> 1000) @@ (-6000 :> 1000) @@ (-5000 :> 1000) @@ (-3000 :> 1000)
    @@ (-2000 :> 1000) @@ (-1000 :> 1000) @@ (-500 :> 100) @@ (-100 :> 100)
    @@ (-50 :> 10) @@ (-25 :> 10) @@ (-1 :> 1) @@ (0 :> 0) @@ (10 :> 100)
    @@ (100 :> 1000) @@ (112 :> 1000) @@ (200 :> 1000) @@ (1000 :> 10000)
    @@ (6000 :> 10000) @@ (10000 :> 10000) @@ (12000 :> 10000) @@ (50000 :> 10000)
    @@ (60000 :> 10000) @@ (100000 :> 10000)

VoltageMin == 15000

\* single_validator without the voltage test
single_validator_no_voltage(list) ==
    ~(list.Index < 1 \/ list.Cycle < 1 \/ list.Step < 1)

\* single_validator over the decoded list
single_validator(list) ==
    ~(list.Index < 1 \/ list.Cycle < 1 \/ list.Step < 1 \/ list.Voltage < VoltageMin)

InvalidDate == -1

\* the last byte byte_to_list unpacks is bytes[85] (Range, bytes[82:86])
DecodeBytes == 86

\* byte_to_list: [raised |-> "none" or the exception, list |-> the record];
\* Current * multiplier / 1000 in 1e-8 A is Current * multiplier(1e-5);
\* abs(Charge - Discharge) * multiplier / 3600000 in 1e-8 Ah is
\* abs(Charge - Discharge) * multiplier(1e-5) / 3600
byte_to_list(b) ==
    IF b.length < DecodeBytes THEN [raised |-> "struct.error"]
    ELSE IF b.Range \notin DOMAIN multiplier_dict THEN [raised |-> "KeyError"]
    ELSE IF b.Status \notin DOMAIN state_dict THEN [raised |-> "KeyError"]
    ELSE IF b.Date = InvalidDate THEN [raised |-> "ValueError"]
    ELSE LET multiplier == multiplier_dict[b.Range]
             list == [Index |-> b.Index,
                      Cycle |-> b.Cycle + 1,
                      Step |-> b.Step,
                      Status |-> state_dict[b.Status],
                      Time |-> b.Time,
                      Voltage |-> b.Voltage,
                      Current |-> b.Current * multiplier,
                      Capacity |-> (Abs(b.Charge_capacity - b.Discharge_capacity) * multiplier) \div 3600,
                      Energy |-> (Abs(b.Charge_energy - b.Discharge_energy) * multiplier) \div 3600,
                      Timestamp |-> b.Date]
         IN  [raised |-> "none",
              list |-> [Index |-> list.Index, Cycle |-> list.Cycle, Step |-> list.Step,
                        Status |-> list.Status, Time |-> list.Time, Voltage |-> list.Voltage,
                        Current |-> list.Current, Capacity |-> list.Capacity,
                        Energy |-> list.Energy, Timestamp |-> list.Timestamp,
                        Validated |-> single_validator(list)]]

----------------------------------------------------------------------------
(* ndax_functions.valid_rec, ndax_basic.aux_bytes65 / aux_bytes74,         *)
(* ndax_basic.count_changes, and the DataFrame steps of to_df              *)

\* valid_rec reads bytes[17:18]
StatusBytes == 18

valid_rec(b) == b.Status # 0 /\ b.Status # 255

\* the low 16 bits of x as a signed short (struct "<h")
Short(x) == LET u == x % 65536 IN IF u >= 32768 THEN u - 65536 ELSE u

\* aux_bytes65 reads up to bytes[41:43], aux_bytes74 up to bytes[41:45]
Aux65Bytes == 43
Aux74Bytes == 45

\* [Index, Aux, V / 10000, T / 10]: V in 1e-4 V, T in 0.1 degree
aux_bytes65(b, b3) == <<b.Index, b3, b.Voltage, b.T>>

\* [Index, Aux, V / 10000, T / 10, t / 10]; bytes[43:45] are the low bytes of
\* the field byte_to_list reads as Charge_capacity
aux_bytes74(b, b3) == <<b.Index, b3, b.Voltage, b.T, Short(b.Charge_capacity)>>

\* count_changes without a.iloc[0] = 1: the first difference stays NaN and
\* is not counted
count_changes_first_unset(series) ==
    [i \in 1..Len(series) |->
        Cardinality({j \in 2..i : series[j] # series[j-1]})]

\* count_changes: a = series.diff(); a.iloc[0] = 1; (abs(a) > 0).cumsum()
count_changes(series) ==
    [i \in 1..Len(series) |->
        Cardinality({j \in 1..i : j = 1 \/ series[j] # series[j-1]})]

\* count_changes(series) as a call: a.iloc[0] = 1 raises IndexError on an
\* empty series
count_changes_call(series) ==
    IF series = <<>> THEN [raised |-> "IndexError", value |-> <<>>]
    ELSE [raised |-> "none", value |-> count_changes(series)]

\* df.drop_duplicates(subset="Index"): the first row of every Index is kept
drop_duplicates(d) ==
    LET keep == {i \in 1..Len(d) : \A j \in 1..(i-1) : d[j].Index # d[i].Index}
        RECURSIVE Pick(_)
        Pick(i) == IF i > Len(d) THEN <<>>
                   ELSE IF i \in keep THEN <<d[i]>> \o Pick(i + 1) ELSE Pick(i + 1)
    IN  Pick(1)

\* df.sort_values("Index") on rows whose Index values are distinct
sort_values(d) ==
    LET RECURSIVE Sorted(_)
        Sorted(rest) ==
            IF rest = {} THEN <<>>
            ELSE LET m == CHOOSE i \in rest : \A j \in rest : d[i].Index <= d[j].Index
                 IN  <<d[m]>> \o Sorted(rest \ {m})
    IN  Sorted(1..Len(d))

aux_columns == <<"Index", "T">>

\* the steps of to_df after the scan loop (lines 318-359) on the scanned rows:
\* [raised |-> , df |-> ]. An empty frame has object columns and no first row:
\* validate_timegap's .dt accessor raises on it. A decoded auxiliary row has
\* 4 or 5 values, aux_columns names 2: pd.DataFrame(aux, columns=aux_columns)
\* raises when aux is not empty. astype maps Cycle to uint16. The DCIR(mOhm)
\* and Step Number columns are not modelled.
to_df_frame(out, auxrows, incl_aux) ==
    LET d1 == drop_duplicates(out)
        d2 == IF IsMonotonicIncreasing(Column(d1, "Index")) THEN d1 ELSE sort_values(d1)
        d3 == validate_timegap(d2)
        steps == count_changes(Column(d3, "Step"))
        d4 == [i \in 1..Len(d3) |->
                 [d3[i] EXCEPT !.Step = steps[i], !.Cycle = d3[i].Cycle % 65536]]
    IN  IF out = <<>> THEN [raised |-> "AttributeError", df |-> <<>>]
        ELSE IF incl_aux /\ \E k \in 1..Len(auxrows) : Len(auxrows[k]) # Len(aux_columns)
            THEN [raised |-> "ValueError", df |-> <<>>]
        ELSE [raised |-> "none", df |-> d4]

\* the two layouts to_df tells apart by mm[517:525] (lines 285-295). marker is
\* the byte of the synchronization sequence that rec_byte selects: the record
\* is read at header - offset, so bytes[rec_byte] lies inside the matched
\* sequence in both layouts and is the same for every record of the file.
\* sync3 is the byte of the sequence at bytes[3] (layout 94 only).
Layout94(marker) ==
    [record_len |-> 94, offset |-> 0, aux_id |-> 0, rec_byte |-> 0,
     onset_at |-> 517, marker |-> marker, sync3 |-> 0]

Layout90(marker) ==
    [record_len |-> 90, offset |-> 4, aux_id |-> 3, rec_byte |-> 7,
     onset_at |-> 4225, marker |-> marker, sync3 |-> 0]

\* bytes[3:4]
ByteAt3(m, b) == IF m.offset = 0 THEN m.sync3 ELSE b.b3

\* bytes[aux_id]
AuxId(m, b) == IF m.aux_id = m.rec_byte THEN m.marker ELSE ByteAt3(m, b)

\* the primary branch of the loop body (lines 302-306)
ScanPrimary(m, b, out, warn) ==
    IF m.marker # 85
        THEN [raised |-> "none", output |-> out, warnings |-> Append(warn, m.marker)]
    ELSE IF b.length < StatusBytes
        THEN [raised |-> "struct.error", output |-> out, warnings |-> warn]
    ELSE IF ~valid_rec(b)
        THEN [raised |-> "none", output |-> out, warnings |-> warn]
    ELSE LET r == byte_to_list(b)
         IN  IF r.raised # "none"
                THEN [raised |-> r.raised, output |-> out, warnings |-> warn]
                ELSE [raised |-> "none", output |-> Append(out, r.list), warnings |-> warn]

\* the auxiliary branch of the loop body (lines 308-313)
ScanAux(m, b, incl_aux, ax) ==
    IF ~incl_aux THEN [raised |-> "none", aux |-> ax]
    ELSE IF AuxId(m, b) = 101
        THEN IF b.length < Aux65Bytes THEN [raised |-> "struct.error", aux |-> ax]
             ELSE [raised |-> "none", aux |-> Append(ax, aux_bytes65(b, ByteAt3(m, b)))]
    ELSE IF AuxId(m, b) = 116
        THEN IF b.length < Aux74Bytes THEN [raised |-> "struct.error", aux |-> ax]
             ELSE [raised |-> "none", aux |-> Append(ax, aux_bytes74(b, ByteAt3(m, b)))]
    ELSE [raised |-> "none", aux |-> ax]

\* one iteration of the scan loop on the record b (lines 300-313)
ScanBody(m, b, incl_aux, out, ax, warn) ==
    LET p == ScanPrimary(m, b, out, warn)
        a == ScanAux(m, b, incl_aux, ax)
    IN  IF p.raised # "none"
            THEN [raised |-> p.raised, output |-> out, aux |-> ax, warnings |-> warn]
        ELSE [raised |-> a.raised, output |-> p.output, aux |-> a.aux,
              warnings |-> p.warnings]

----------------------------------------------------------------------------
(* ndax_functions.data_ndc, data_runInfo_ndc, data_step_ndc: the decoders  *)
(* of the three streams. A stream is [version |-> the byte at mm[2],       *)
(* recs |-> the entries iter_unpack yields over its blocks].               *)

\* data_ndc: the entries with a non-zero voltage, Index = df.index + 1
\* (Voltage in 1e-4 V, Current in mA, as stored)
data_ndc(file) ==
    LET KeepV(e) == e.Voltage # 0
        rec == SelectSeq(file.recs, KeepV)
    IN  [raised |-> "none",
         df |-> [i \in 1..Len(rec) |->
                    [Voltage |-> rec[i].Voltage, Current |-> rec[i].Current, Index |-> i]]]

\* the struct format and the end of the block slice, chosen by ndc_version
\* (lines 120-126): the layout commented "for ndc version 11" unless the
\* version is 14 or more
RunInfoLayout(ndc_version) ==
    IF ndc_version >= 14
        THEN [format |-> "<isffff12siii10s", end_byte |-> -59]
        ELSE [format |-> "<isffff12siii2s", end_byte |-> -63]

\* tz_localize("Asia/Dhaka").tz_convert("Asia/Kolkata").tz_localize(None):
\* UTC+6:00 to UTC+5:30
TzShiftSeconds == 1800

\* data_runInfo_ndc: the entries with a non-zero Index; count_changes raises
\* on an empty Step column (a.iloc[0] = 1). Time in ms, Capacity and Energy in
\* the unit of the stream (the code divides them by 3600000)
data_runInfo_ndc(file) ==
    LET layout == RunInfoLayout(file.version)
        KeepI(e) == e.Index # 0
        rec == SelectSeq(file.recs, KeepI)
        steps == count_changes([i \in 1..Len(rec) |-> rec[i].Step])
    IN  IF rec = <<>> THEN [raised |-> "IndexError", layout |-> layout, df |-> <<>>]
        ELSE [raised |-> "none", layout |-> layout,
              df |-> [i \in 1..Len(rec) |->
                        [Time |-> rec[i].Time,
                         Capacity |-> Abs(rec[i].Charge_Capacity - rec[i].Discharge_Capacity),
                         Energy |-> Abs(rec[i].Charge_Energy - rec[i].Discharge_Energy),
                         Timestamp |-> rec[i].Timestamp - TzShiftSeconds,
                         Step |-> steps[i],
                         Index |-> rec[i].Index]]]

\* data_step_ndc: the entries with a non-zero Step_Index, unpacked with the
\* one format "<ii16sb12s" whatever the version byte; Step = df.index + 1
data_step_ndc(file) ==
    LET KeepS(e) == e.Step_Index # 0
        rec == SelectSeq(file.recs, KeepS)
    IN  IF \E i \in 1..Len(rec) : rec[i].Status \notin DOMAIN state_dict
            THEN [raised |-> "KeyError", df |-> <<>>]
        ELSE [raised |-> "none",
              df |-> [i \in 1..Len(rec) |->
                        [Cycle |-> rec[i].Cycle + 1, Step |-> i,
                         Status |-> state_dict[rec[i].Status]]]]

----------------------------------------------------------------------------
(* fabricate (ndax_functions.py): fills in the rows of a three-stream      *)
(* series that have no run-info entry. A missing value is NaN. In this     *)
(* part Time and Timestamp are in seconds, Current in A, Voltage in V,     *)
(* Capacity in A*s and Energy in V*A*s (the code divides both by 3600).    *)

\* a missing value (NaN, NaT)
NaN == -(10 ^ 6)

\* Series.notnull, element-wise
notnull(x) == x # NaN

\* arithmetic of float64 with NaN
Plus(a, b) == IF notnull(a) /\ notnull(b) THEN a + b ELSE NaN

Minus(a, b) == IF notnull(a) /\ notnull(b) THEN a - b ELSE NaN

Times(a, b) == IF notnull(a) /\ notnull(b) THEN a * b ELSE NaN

\* the Series of the values of f, evaluated once
Series(f) == SubSeq(f, 1, Len(f))

SetMax(S) == CHOOSE m \in S : \A x \in S : m >= x

SetMin(S) == CHOOSE m \in S : \A x \in S : m <= x

\* Series.diff()
diff(s) ==
    Series([i \in 1..Len(s) |-> IF i = 1 THEN NaN ELSE Minus(s[i], s[i-1])])

\* Series.shift()
shift(s) == Series([i \in 1..Len(s) |-> IF i = 1 THEN NaN ELSE s[i-1]])

\* Series.ffill()
ffill(s) ==
    Series([i \in 1..Len(s) |->
        LET V == {j \in 1..i : notnull(s[j])}
        IN  IF V = {} THEN NaN ELSE s[SetMax(V)]])

\* a + b, element-wise
add(a, b) == Series([i \in 1..Len(a) |-> Plus(a[i], b[i])])

\* a * b, element-wise
mul(a, b) == Series([i \in 1..Len(a) |-> Times(a[i], b[i])])

\* a.where(cond, b): a where cond holds, b elsewhere; a row cond has no
\* entry for takes b
where(a, cond, b) ==
    Series([i \in 1..Len(a) |-> IF i <= Len(cond) /\ cond[i] THEN a[i] ELSE b[i]])

\* Series.mode().values[0]: the smallest of the most frequent values
mode(s) ==
    LET vals == {s[i] : i \in 1..Len(s)} \ {NaN}
        count(v) == Cardinality({i \in 1..Len(s) : s[i] = v})
        best == {v \in vals : \A w \in vals : count(v) >= count(w)}
    IN  SetMin(best)

RECURSIVE SumValid(_, _, _)
\* the sum of the values of s[a..b] that are not missing
SumValid(s, a, b) ==
    IF a > b THEN 0
    ELSE (IF notnull(s[b]) THEN s[b] ELSE 0) + SumValid(s, a, b - 1)

\* s.groupby(key.cumsum()).cumsum() for a boolean key: a group starts at
\* every row whose key is True; a row the key has no entry for is in no group
group_cumsum(s, key) ==
    Series([i \in 1..Len(s) |->
        IF i > Len(key) \/ ~notnull(s[i]) THEN NaN
        ELSE LET K == {j \in 1..i : key[j]}
             IN  SumValid(s, IF K = {} THEN 1 ELSE SetMax(K), i)])

\* groupby("Step")["Time"].transform(interpolate(limit_area="inside")):
\* linear in the position within the rows of the same Step
interpolate_by_step(step, time) ==
    Series([i \in 1..Len(time) |->
        IF notnull(time[i]) THEN time[i]
        ELSE LET G == {j \in 1..Len(time) : step[j] = step[i]}
                 B == {j \in G : j < i /\ notnull(time[j])}
                 A == {j \in G : j > i /\ notnull(time[j])}
                 rank(j) == Cardinality({k \in G : k <= j})
             IN  IF B = {} \/ A = {} THEN NaN
                 ELSE LET p == SetMax(B)
                          q == SetMin(A)
                      IN  time[p] + ((time[q] - time[p]) * (rank(i) - rank(p)))
                                        \div (rank(q) - rank(p))])

\* a row added by df.loc[-1, "Cycle"] = ...: every other column is missing
EnlargedRow(r) ==
    [Time |-> NaN, Capacity |-> NaN, Energy |-> NaN, Timestamp |-> NaN,
     Voltage |-> NaN, Current |-> NaN,
     Cycle |-> r.Cycle, Step |-> r.Step, Status |-> r.Status]

\* the statements F that follow the statements x, unless x raised; x is
\* evaluated once
Then(x, F(_)) ==
    CHOOSE y \in {IF v.raised = "none" THEN F(v) ELSE v : v \in {x}} : TRUE

\* lines 30-44. Positions are labels + 1, so label -1 is position 0.
fab_marks(d) ==
    LET Time == Series(Column(d, "Time"))
        trc == diff(Time)
    IN  IF \A i \in 1..Len(d) : ~notnull(trc[i])
        THEN [raised |-> "IndexError", df |-> d]
        ELSE LET list1 == {i \in 1..Len(d) : Time[i] = 0}
                 list0 == {i - 1 : i \in {j \in 1..Len(d) : Time[j] = mode(trc)}}
             IN  [raised |-> "none", df |-> d,
                  nan_value |-> Series([i \in 1..Len(d) |-> notnull(Time[i])]),
                  trd |-> mode(trc),
                  s1 |-> list0 \ list1,
                  s2 |-> {i + 1 : i \in list1 \ list0},
                  Time |-> Time, capacity |-> <<>>]

\* lines 45-49, in increasing order of i, so that row i + 1 is read before it
\* is written; i = -1 adds a row
fab_relabel(st) ==
    LET d == st.df
        d1 == [i \in 1..Len(d) |->
                 IF i \in st.s1
                 THEN [d[i] EXCEPT !.Cycle = d[i+1].Cycle,
                                   !.Step = d[i+1].Step,
                                   !.Status = d[i+1].Status]
                 ELSE d[i]]
    IN  [st EXCEPT !.df = IF 0 \in st.s1 THEN Append(d1, EnlargedRow(d[1])) ELSE d1]

\* line 51
fab_zero(st) ==
    [st EXCEPT !.Time = Series([i \in 1..Len(st.df) |->
                                  IF i \in st.s1 THEN 0 ELSE st.df[i].Time])]

\* line 52
fab_trd(st) ==
    [st EXCEPT !.Time = Series([i \in 1..Len(st.df) |->
                                  IF i \in st.s2 THEN st.trd ELSE st.Time[i]])]

\* lines 54-56
fab_interpolate(st) ==
    [st EXCEPT !.Time = interpolate_by_step(Column(st.df, "Step"), st.Time)]

\* lines 58-61
fab_extrapolate(st) ==
    LET nan_value2 == Series([i \in 1..Len(st.Time) |-> notnull(st.Time[i])])
        time_inc == group_cumsum(ffill(diff(st.Time)), nan_value2)
        time == add(ffill(st.Time), shift(time_inc))
    IN  [st EXCEPT !.Time = where(st.Time, nan_value2, time)]

\* lines 64-66
fab_timestamp(st) ==
    LET time_inc == group_cumsum(diff(st.Time), st.nan_value)
        timestamp == add(ffill(Column(st.df, "Timestamp")), shift(time_inc))
    IN  [st EXCEPT !.df = [i \in 1..Len(st.df) |->
            [st.df[i] EXCEPT !.Time = st.Time[i],
                             !.Timestamp =
                                 IF i <= Len(st.nan_value) /\ st.nan_value[i]
                                 THEN @ ELSE timestamp[i]]]]

\* line 69
fab_capacity_zero(st) ==
    [st EXCEPT !.df = [i \in 1..Len(st.df) |->
        [st.df[i] EXCEPT !.Capacity = IF st.Time[i] # 0 THEN @ ELSE 0]]]

\* lines 71-75
fab_increment(st) ==
    LET dT == diff(st.Time)
        forward == Series([i \in 1..Len(dT) |-> notnull(dT[i]) /\ dT[i] >= 0])
        cur == Series([i \in 1..Len(dT) |->
                         IF notnull(st.df[i].Current)
                         THEN Abs(st.df[i].Current) ELSE NaN])
    IN  [st EXCEPT !.capacity = mul(where(dT, forward, shift(dT)), cur)]

\* inc.where(df["Current(A)"] != 0, 0)
where_current(st, inc) ==
    Series([i \in 1..Len(inc) |-> IF st.df[i].Current # 0 THEN inc[i] ELSE 0])

\* lines 70, 76-78
fab_capacity(st) ==
    LET Capacity == Series(Column(st.df, "Capacity"))
        cap_mask == Series([i \in 1..Len(Capacity) |-> notnull(Capacity[i])])
        inc == group_cumsum(st.capacity, cap_mask)
        cap == add(ffill(Capacity), shift(where_current(st, inc)))
    IN  [st EXCEPT !.df = [i \in 1..Len(st.df) |->
            [st.df[i] EXCEPT !.Capacity =
                                 IF i <= Len(st.nan_value) /\ st.nan_value[i]
                                 THEN @ ELSE cap[i]]]]

\* lines 81-84
fab_energy(st) ==
    LET energy == mul(st.capacity, Column(st.df, "Voltage"))
        inc == group_cumsum(energy, st.nan_value)
        eng == add(ffill(Column(st.df, "Energy")), shift(where_current(st, inc)))
    IN  [st EXCEPT !.df = [i \in 1..Len(st.df) |->
            [st.df[i] EXCEPT !.Energy =
                                 IF i <= Len(st.nan_value) /\ st.nan_value[i]
                                 THEN @ ELSE eng[i]]]]

\* fabricate(df): the statements in the order of the code. Cycle and Status
\* are present in every row it is given here, which leaves nothing to fill
\* for lines 86-87.
fabricate(d) ==
    Then(Then(Then(Then(Then(Then(Then(Then(Then(Then(fab_marks(d),
        fab_relabel), fab_zero), fab_trd), fab_interpolate), fab_extrapolate),
        fab_timestamp), fab_capacity_zero), fab_increment), fab_capacity),
        fab_energy)

----------------------------------------------------------------------------
(* rename and get_cycle (ndax_functions.py). get_cycle is given the frame  *)
(* get_records returns: current_mA, capacity_mAh and energy_mWh are in     *)
(* 1e-3 A, Ah and Wh, and rename's division by 1000 turns them into the    *)
(* Current, Capacity and Energy columns in A, Ah and Wh, held here as the  *)
(* same count of thousandths. time_in_step is in whole seconds.            *)

\* rename(df): one row
rename_row(r) ==
    [Index |-> r.record_ID, Cycle |-> r.cycle, Step |-> r.step_ID,
     Status |-> r.step_name, Time |-> r.time_in_step, Voltage |-> r.voltage_V,
     Current |-> r.current_mA, Capacity |-> r.capacity_mAh,
     Energy |-> r.energy_mWh, Timestamp |-> r.timestamp]

rename(d) == [i \in 1..Len(d) |-> rename_row(d[i])]

\* Series.unique(): the values in order of first appearance
unique(s) ==
    LET RECURSIVE Pick(_)
        Pick(i) == IF i > Len(s) THEN <<>>
                   ELSE IF \A j \in 1..(i-1) : s[j] # s[i]
                        THEN <<s[i]>> \o Pick(i + 1) ELSE Pick(i + 1)
    IN  Pick(1)

\* the names of state_dict that re.search("dchg", col, re.IGNORECASE) finds;
\* they are also the names re.search("d", col, re.IGNORECASE) finds
SearchDchg(col) ==
    col \in {"CC_Dchg", "CP_Dchg", "CR_Dchg", "CV_Dchg", "CCCV_Dchg", "CPCV_Dchg"}

\* the names of state_dict that re.search("chg", col, re.IGNORECASE) finds
SearchChg(col) ==
    SearchDchg(col) \/ col \in {"CC_Chg", "CV_Chg", "CCCV_Chg", "CP_Chg", "CPCV_Chg"}

\* lines 964-974: the Status compared with for the charge rows
chg_temp(d) ==
    LET step_col == Tail(unique(Column(d, "Status")))
        M == {k \in 1..Len(step_col) :
                 SearchChg(step_col[k]) /\ ~SearchDchg(step_col[k])}
    IN  IF /\ \E k \in 1..Len(step_col) : step_col[k] = "CCCV_Chg"
           /\ \E j \in 1..Len(step_col) : step_col[j] = "CC_Dchg"
        THEN "CCCV_Chg"
        ELSE IF M = {} THEN "CCCV_Chg" ELSE step_col[SetMax(M)]

\* lines 964-974: the Status compared with for the discharge rows
dchg_temp(d) ==
    LET step_col == Tail(unique(Column(d, "Status")))
        M == {k \in 1..Len(step_col) : SearchDchg(step_col[k])}
    IN  IF /\ \E k \in 1..Len(step_col) : step_col[k] = "CCCV_Chg"
           /\ \E j \in 1..Len(step_col) : step_col[j] = "CC_Dchg"
        THEN "CC_Dchg"
        ELSE IF M = {} THEN "CC_Dchg" ELSE step_col[SetMax(M)]

\* df[df["Cycle"] == c].Index.nunique()
cycle_nunique(d, c) == Cardinality({d[i].Index : i \in {j \in 1..Len(d) : d[j].Cycle = c}})

\* lines 975-980
lastcycle_counter(d) ==
    LET cycles == {d[i].Cycle : i \in 1..Len(d)}
        sizes == [c \in cycles |-> cycle_nunique(d, c)]
        freq(v) == Cardinality({c \in cycles : sizes[c] = v})
        best == {sizes[c] : c \in {x \in cycles :
                                      \A y \in cycles : freq(sizes[x]) >= freq(sizes[y])}}
    IN  IF cycle_nunique(d, SeqMax(Column(d, "Cycle"))) = SetMin(best) THEN 1 ELSE 0

\* "{:02}:{:02}:{:02}".format(int(t // 3600), int(t % 3600 // 60), int(t % 60))
hhmmss(t) == <<t \div 3600, (t % 3600) \div 60, t % 60>>

\* the rows of d that satisfy Test, in order
Rows(d, Test(_)) == SelectSeq(d, Test)

\* one iteration of the loop (lines 984-1045) for cycle i. The DCIR(mOhm)
\* average of the cycle is not modelled.
cycle_summary(d, i) ==
    LET InCycle(r) == r.Cycle = i
        df2 == Rows(d, InCycle)
        IsChg(r) == r.Status = chg_temp(d)
        IsDchg(r) == r.Status = dchg_temp(d)
        df_chg == Rows(df2, IsChg)
        df_dchg == Rows(df2, IsDchg)
    IN  IF df2 = <<>> THEN [raised |-> "KeyError"]
        ELSE IF df_chg = <<>> \/ df_dchg = <<>> THEN [raised |-> "IndexError"]
        ELSE [raised |-> "none",
              Cycle |-> i,
              Onset |-> df2[1].Timestamp,
              End |-> df2[Len(df2)].Timestamp,
              ChgCap |-> df_chg[Len(df_chg)].Capacity,
              DChgCap |-> df_dchg[Len(df_dchg)].Capacity,
              ChgEnergy |-> df_chg[Len(df_chg)].Energy,
              DChgEnergy |-> df_dchg[Len(df_dchg)].Energy,
              ChgTime |-> hhmmss(df_chg[Len(df_chg)].Time),
              DChgTime |-> hhmmss(df_dchg[Len(df_dchg)].Time),
              ChgOnsetVolt |-> df_chg[1].Voltage,
              DChgOnsetVolt |-> df_dchg[1].Voltage,
              ChgEndVolt |-> df_chg[Len(df_chg)].Voltage,
              DChgEndVolt |-> df_dchg[Len(df_dchg)].Voltage,
              ChgOnsetCurrent |-> df_chg[1].Current,
              DChgOnsetCurrent |-> df_dchg[1].Current,
              ChgEndCurrent |-> df_chg[Len(df_chg)].Current,
              DChgEndCurrent |-> df_dchg[Len(df_dchg)].Current]

\* range(min(df["Cycle"]), max(df["Cycle"] + lastcycle_counter))
cycle_range(d) ==
    SeqMin(Column(d, "Cycle"))..(SeqMax(Column(d, "Cycle")) + lastcycle_counter(d) - 1)

\* get_cycle(df) on a frame of at least one row: the first iteration that
\* raises ends the call
get_cycle(frame) ==
    LET d == rename(frame)
        lo == SeqMin(Column(d, "Cycle"))
        bad == {i \in cycle_range(d) : cycle_summary(d, i).raised # "none"}
    IN  IF bad # {}
        THEN [raised |-> cycle_summary(d, SetMin(bad)).raised, df |-> <<>>]
        ELSE [raised |-> "none",
              df |-> [k \in 1..Cardinality(cycle_range(d)) |->
                        cycle_summary(d, lo + k - 1)]]


----------------------------------------------------------------------------
(* df_diff (ndax_basic.py) and get_recipe (ndax_functions.py). A cycle     *)
(* signature is the sequence of the rows of df_recipe of one cycle without *)
(* the Cycle and Step columns. Its Voltage, Current, Cutoff_current and    *)
(* Cutoff_voltage are the values round(x, 2) returned, held as hundredths; *)
(* Rest_time is in seconds. In the frame get_recipe is given voltage_V is  *)
(* in 1e-3 V, current_mA in mA and time_in_step in seconds.                *)

\* for i in combined: if abs(i) > 0.05
Tolerance == 5

DiffFields == {"Voltage", "Current", "Cutoff_current", "Cutoff_voltage"}

\* df_diff(df1, df2) on two signatures
df_diff(df1, df2) ==
    IF Column(df1, "Status") # Column(df2, "Status") THEN -1
    ELSE IF Column(df1, "Rest_time") # Column(df2, "Rest_time") THEN -1
    ELSE IF \E i \in 1..Len(df1) : \E f \in DiffFields :
                Abs(Abs(df1[i][f]) - Abs(df2[i][f])) > Tolerance
         THEN -1
    ELSE 1

\* DataFrame.shape of a signature
shape(d) == <<Len(d), Cardinality(DiffFields) + 2>>

\* the match test of get_recipe (lines 1219-1223 and 1245)
recipe_match(df1, df2) == shape(df1) = shape(df2) /\ df_diff(df1, df2) = 1

\* round(x / d, 2) in hundredths, for x / d given in hundredths as x over d;
\* the frames used here hold no value that lies halfway
round_div(x, d) ==
    IF x >= 0 THEN (x + d \div 2) \div d ELSE -((-x + d \div 2) \div d)

\* lines 1108-1114: "_chg" and "_dchg" are searched in the statuses after the
\* first one; the last status found is kept, "" when there is none
recipe_chg_temp(d) ==
    LET step_col == Tail(unique(Column(d, "Status")))
        M == {k \in 1..Len(step_col) :
                 SearchChg(step_col[k]) /\ ~SearchDchg(step_col[k])}
    IN  IF M = {} THEN "" ELSE step_col[SetMax(M)]

recipe_dchg_temp(d) ==
    LET step_col == Tail(unique(Column(d, "Status")))
        M == {k \in 1..Len(step_col) : SearchDchg(step_col[k])}
    IN  IF M = {} THEN "" ELSE step_col[SetMax(M)]

\* lines 1129-1162: the df_recipe row of the rows df3 of one step
step_signature(df3, chg, dchg) ==
    LET status == df3[1].Status
        last == df3[Len(df3)]
    IN  [Status |-> status,
         Rest_time |-> IF status = "Rest" THEN last.Time ELSE 0,
         Voltage |-> IF status = chg
                        THEN round_div(SeqMax(Column(df3, "Voltage")), 10)
                     ELSE IF status = dchg
                        THEN round_div(SeqMin(Column(df3, "Voltage")), 10)
                     ELSE 0,
         Cutoff_voltage |-> IF status = chg THEN 0
                            ELSE IF status = dchg THEN round_div(last.Voltage, 10)
                            ELSE 0,
         Current |-> IF status = chg \/ status = dchg
                        THEN round_div(df3[1].Current, 10000)
                     ELSE 0,
         Cutoff_current |-> IF status = chg THEN round_div(last.Current, 10000)
                            ELSE 0]

\* lines 1118-1162: the signature of cycle i, or what the iteration raises:
\* min() of no Step for a cycle without rows, iloc[0] for a step without rows
cycle_signature(d, i, chg, dchg) ==
    LET InCycle(r) == r.Cycle = i
        df2 == SelectSeq(d, InCycle)
        lo == SeqMin(Column(df2, "Step"))
        hi == SeqMax(Column(df2, "Step"))
        rows(j) == LET InStep(r) == r.Step = j IN SelectSeq(df2, InStep)
    IN  IF df2 = <<>> THEN [raised |-> "ValueError", sig |-> <<>>]
        ELSE IF \E j \in lo..hi : rows(j) = <<>>
            THEN [raised |-> "IndexError", sig |-> <<>>]
        ELSE [raised |-> "none",
              sig |-> [k \in 1..(hi - lo + 1) |-> step_signature(rows(lo + k - 1), chg, dchg)]]

\* the sorted list of the values of a set
sorted(S) ==
    LET RECURSIVE Asc(_)
        Asc(rest) == IF rest = {} THEN <<>>
                     ELSE <<SetMin(rest)>> \o Asc(rest \ {SetMin(rest)})
    IN  Asc(S)

RECURSIVE merge_ranges_kept(_, _, _, _)
\* the merge without line 1261: a boundary put with one key stays in
\* dict_consecutive
merge_ranges_kept(keys, k, consec, acc) ==
    IF k > Len(keys) THEN acc
    ELSE LET i == keys[k].key
             js == keys[k].matches
             taken == {j \in {js[n] : n \in 1..Len(js)} : j \in DOMAIN consec}
             tail == [n \in 1..Cardinality(taken) |->
                        <<sorted(taken)[n], consec[sorted(taken)[n]] - 1>>]
         IN  merge_ranges_kept(keys, k + 1, consec,
                      Append(acc, [key |-> i,
                                   ranges |-> <<<<i, consec[i] - 1>>>> \o tail]))

RECURSIVE merge_ranges(_, _, _, _)
\* lines 1247-1254 for the keys of dict from position k on: acc is dict_temp
\* so far, consec the keys left in dict_consecutive with their values
merge_ranges(keys, k, consec, acc) ==
    IF k > Len(keys) THEN acc
    ELSE LET i == keys[k].key
             js == keys[k].matches
             taken == {j \in {js[n] : n \in 1..Len(js)} : j \in DOMAIN consec}
             tail == [n \in 1..Cardinality(taken) |->
                        <<sorted(taken)[n], consec[sorted(taken)[n]] - 1>>]
         IN  IF i \in DOMAIN consec
             THEN merge_ranges(keys, k + 1,
                      [x \in (DOMAIN consec) \ taken |-> consec[x]],
                      Append(acc, [key |-> i,
                                   ranges |-> <<<<i, consec[i] - 1>>>> \o tail]))
             ELSE merge_ranges(keys, k + 1, consec, acc)

\* get_recipe(df): dict_recipe_range as the sequence of its items,
\* [key |-> x of "Recipe-x", ranges |-> the list of [first, last] pairs]
get_recipe(frame) ==
    LET d == rename(frame)
        chg == recipe_chg_temp(d)
        dchg == recipe_dchg_temp(d)
        lo == SeqMin(Column(d, "Cycle"))
        hi == SeqMax(Column(d, "Cycle"))
        \* line 1116: range(min(df["Cycle"]), max(df["Cycle"]))
        recipe_cycle == [k \in 1..(hi - lo) |-> lo + k - 1]
        sigs == [i \in lo..(hi - 1) |-> cycle_signature(d, i, chg, dchg)]
        bad == {i \in lo..(hi - 1) : sigs[i].raised # "none"}
        \* df_recipe[df_recipe["Cycle"] == c] without Cycle and Step
        sig(c) == IF c \in lo..(hi - 1) THEN sigs[c].sig ELSE <<>>
        \* lines 1213-1228
        unmatched == {recipe_cycle[k + 1] : k \in
                        {n \in 1..(Len(recipe_cycle) - 1) :
                            ~recipe_match(sig(recipe_cycle[n]), sig(recipe_cycle[n + 1]))}}
        recipe_unmatch == sorted({1} \cup unmatched \cup {hi - 1})
        \* lines 1230-1232
        dict_consecutive ==
            [x \in {recipe_unmatch[n] : n \in 1..(Len(recipe_unmatch) - 1)} |->
                recipe_unmatch[(CHOOSE n \in 1..Len(recipe_unmatch) :
                                    recipe_unmatch[n] = x) + 1]]
        \* lines 1236-1246
        dict == [n \in 1..(Len(recipe_unmatch) - 1) |->
                   [key |-> recipe_unmatch[n],
                    matches |->
                        LET Match(c) == c > recipe_unmatch[n]
                                        /\ recipe_match(sig(recipe_unmatch[n]), sig(c))
                        IN  SelectSeq(recipe_unmatch, Match)]]
    IN  IF bad # {} THEN [raised |-> sigs[SetMin(bad)].raised, df |-> <<>>]
        ELSE [raised |-> "none", df |-> merge_ranges(dict, 1, dict_consecutive, <<>>)]


----------------------------------------------------------------------------
(* The extraction working directory (ndax_functions.py, to_df and the      *)
(* metadata accessors).  A directory maps each member name to the archive  *)
(* its content was extracted from, or to Missing.  A str is a sequence of  *)
(* characters; a literal no operation looks inside is written as one       *)
(* element.  Every archive has a member, so the directory exists once a    *)
(* call has extracted into it.                                             *)

Missing == "-"

MemberNames ==
    {"data.ndc", "data_runInfo.ndc", "data_step.ndc", "TestInfo.xml",
     "Step.xml"}

EmptyDir == [n \in MemberNames |-> Missing]

\* os.listdir
listdir(dir) == {n \in MemberNames : dir[n] # Missing}

\* filename.endswith(".xml")
XmlNames == {"TestInfo.xml", "Step.xml"}

None == <<"None">>

\* Element.find(...) is None
NoElement == <<"no element">>

RemarkNotFound == <<"Remark element not found.">>
StepNameNotFound == <<"StepName element not found.">>
BarcodeNotFound == <<"Barcode element not found.">>

NoAttributes == [StepName |-> None, Barcode |-> None, StartTime |-> None]

NoHeadInfo ==
    [StepName |-> NoElement, Barcode |-> NoElement, Remark |-> NoElement]

\* an XML document without a TestInfo element and without Head_Info fields
NoDocument == [TestInfo |-> FALSE, attrib |-> NoAttributes, Head_Info |-> NoHeadInfo]

\* The archives of the model.  TestInfo says whether root.find(".//TestInfo")
\* finds an element, attrib holds its attributes, Head_Info the Value of
\* each element below Head_Info (None for an element without Value).
\*   old     producer software < 8, every field in the primary XML member
\*   new     producer software >= 8, TestInfo element without the fields
\*   headed  fields carried by the Head_Info of the secondary XML member
\*   broken  a lone XML member without a TestInfo element
Archives ==
    {[id |-> "old",
      namelist |-> <<"data.ndc", "TestInfo.xml", "Step.xml">>,
      xml |-> [n \in XmlNames |->
                 IF n = "TestInfo.xml"
                 THEN [TestInfo |-> TRUE,
                       attrib |-> [StepName |-> <<"m", "i", "x", ".", "x", "m", "l">>,
                                   Barcode |-> <<"B", "1">>,
                                   StartTime |-> <<"t", "1">>],
                       Head_Info |-> NoHeadInfo]
                 ELSE [NoDocument EXCEPT !.Head_Info.Remark = <<"r", "1">>]]],
     [id |-> "new",
      namelist |-> <<"data.ndc", "data_runInfo.ndc", "data_step.ndc",
                     "TestInfo.xml", "Step.xml">>,
      xml |-> [n \in XmlNames |->
                 IF n = "TestInfo.xml"
                 THEN [NoDocument EXCEPT !.TestInfo = TRUE]
                 ELSE NoDocument]],
     [id |-> "headed",
      namelist |-> <<"data.ndc", "TestInfo.xml", "Step.xml">>,
      xml |-> [n \in XmlNames |->
                 IF n = "TestInfo.xml"
                 THEN [NoDocument EXCEPT !.TestInfo = TRUE]
                 ELSE [NoDocument EXCEPT !.Head_Info.StepName = <<"a", ".", "x", "m", "l">>,
                                         !.Head_Info.Barcode = <<"B", "2">>,
                                         !.Head_Info.Remark = None]]],
     [id |-> "broken",
      namelist |-> <<"TestInfo.xml">>,
      xml |-> [n \in XmlNames |-> NoDocument]]}

Archive(id) == CHOOSE a \in Archives : a.id = id

Members(a) == {a.namelist[k] : k \in 1..Len(a.namelist)}

\* the XML document read from member n of the directory
read_xml(dir, n) == Archive(dir[n]).xml[n]

\* s.strip(chars): the characters of chars leave both ends of s
RECURSIVE lstrip(_, _)
lstrip(s, chars) ==
    IF s # <<>> /\ Head(s) \in chars THEN lstrip(Tail(s), chars) ELSE s

RECURSIVE rstrip(_, _)
rstrip(s, chars) ==
    IF s # <<>> /\ s[Len(s)] \in chars
    THEN rstrip(SubSeq(s, 1, Len(s) - 1), chars)
    ELSE s

strip(s, chars) == rstrip(lstrip(s, chars), chars)

\* the characters of ".xml"
DotXml == {".", "x", "m", "l"}

\* The cleanup loop at the head of every call (and at the end of
\* get_starttime).  r".\temdata" names the working directory only where the
\* backslash separates path components; elsewhere os.path.isdir is false and
\* the loop is skipped.  locked: the files whose open or os.remove raises
\* PermissionError.  attempts counts the os.remove attempts made per file,
\* printed holds the files whose error was printed.
cleanup(os, dir, locked) ==
    IF os = "nt"
    THEN [dir |-> [n \in MemberNames |-> IF n \in locked THEN dir[n] ELSE Missing],
          attempts |-> [n \in MemberNames |-> IF dir[n] # Missing THEN 1 ELSE 0],
          printed |-> locked \cap listdir(dir)]
    ELSE [dir |-> dir,
          attempts |-> [n \in MemberNames |-> 0],
          printed |-> {}]

\* zipfile: for x in f.namelist(): f.extract(x, "./temdata/").  blocked: the
\* files left in the directory that cannot be opened for writing either.
RECURSIVE extract(_, _, _, _)
extract(dir, id, namelist, blocked) ==
    IF namelist = <<>> THEN [dir |-> dir, raised |-> "none"]
    ELSE IF Head(namelist) \in blocked
    THEN [dir |-> dir, raised |-> "PermissionError"]
    ELSE extract([dir EXCEPT ![Head(namelist)] = id], id, Tail(namelist), blocked)

NoFrame == [variant |-> "none", data |-> Missing, runInfo |-> Missing, step |-> Missing]

NoCleanup == [attempts |-> [n \in MemberNames |-> 0], printed |-> {}]

Outcome(dir, raised, value, frame, cleaned) ==
    [dir |-> dir, raised |-> raised, value |-> value, frame |-> frame,
     cleanup |-> [attempts |-> cleaned.attempts, printed |-> cleaned.printed],
     printed_after |-> {}]

\* to_df, as far as the working directory is concerned: the frame returned
\* is named by the streams it was decoded from.
to_df(os, dir, a, locked, blocked) ==
    LET cleaned == cleanup(os, dir, locked)
        ex == extract(cleaned.dir, a.id, a.namelist, blocked)
        files == ex.dir
    IN  IF ex.raised # "none"
        THEN Outcome(files, ex.raised, None, NoFrame, cleaned)
        ELSE IF os # "nt"
        THEN Outcome(files, "FileNotFoundError", None, NoFrame, cleaned)
        ELSE IF files["data.ndc"] = Missing
        THEN Outcome(files, "FileNotFoundError", None, NoFrame, cleaned)
        ELSE IF {"data_runInfo.ndc", "data_step.ndc"} \subseteq listdir(files)
        THEN Outcome(files, "none", None,
                     [variant |-> "three", data |-> files["data.ndc"],
                      runInfo |-> files["data_runInfo.ndc"],
                      step |-> files["data_step.ndc"]], cleaned)
        ELSE Outcome(files, "none", None,
                     [variant |-> "single", data |-> files["data.ndc"],
                      runInfo |-> Missing, step |-> Missing], cleaned)

\* get_remarks
get_remarks(os, dir, a, locked, blocked) ==
    LET cleaned == cleanup(os, dir, locked)
        ex == extract(cleaned.dir, a.id, a.namelist, blocked)
        files == ex.dir
        remark_element == read_xml(files, "Step.xml").Head_Info.Remark
    IN  IF ex.raised # "none"
        THEN Outcome(files, ex.raised, None, NoFrame, cleaned)
        ELSE IF files["Step.xml"] = Missing
        THEN Outcome(files, "FileNotFoundError", None, NoFrame, cleaned)
        ELSE IF remark_element # NoElement
        THEN Outcome(files, "none", remark_element, NoFrame, cleaned)
        ELSE Outcome(files, "none", RemarkNotFound, NoFrame, cleaned)

\* the lookup shared by get_process_name and get_barcode: the attribute of
\* the TestInfo element, else the Head_Info element of the document already
\* parsed, once for every XML file of the directory
lookup(files, field, not_found, stripped) ==
    LET root == read_xml(files, "TestInfo.xml")
        Strip(v) == IF stripped THEN strip(v, DotXml) ELSE v
        m1 == root.attrib[field]
        remark_element == root.Head_Info[field]
    IN  IF m1 # None THEN Strip(m1)
        ELSE IF listdir(files) \cap XmlNames = {} THEN None
        ELSE IF remark_element = NoElement THEN not_found
        ELSE IF remark_element = None THEN None
        ELSE Strip(remark_element)

\* get_process_name
get_process_name(os, dir, a, locked, blocked) ==
    LET cleaned == cleanup(os, dir, locked)
        ex == extract(cleaned.dir, a.id, a.namelist, blocked)
        files == ex.dir
    IN  IF ex.raised # "none"
        THEN Outcome(files, ex.raised, None, NoFrame, cleaned)
        ELSE IF files["TestInfo.xml"] = Missing
        THEN Outcome(files, "FileNotFoundError", None, NoFrame, cleaned)
        ELSE IF ~read_xml(files, "TestInfo.xml").TestInfo
        THEN Outcome(files, "AttributeError", None, NoFrame, cleaned)
        ELSE Outcome(files, "none",
                     lookup(files, "StepName", StepNameNotFound, TRUE),
                     NoFrame, cleaned)

\* get_barcode
get_barcode(os, dir, a, locked, blocked) ==
    LET cleaned == cleanup(os, dir, locked)
        ex == extract(cleaned.dir, a.id, a.namelist, blocked)
        files == ex.dir
    IN  IF ex.raised # "none"
        THEN Outcome(files, ex.raised, None, NoFrame, cleaned)
        ELSE IF files["TestInfo.xml"] = Missing
        THEN Outcome(files, "FileNotFoundError", None, NoFrame, cleaned)
        ELSE IF ~read_xml(files, "TestInfo.xml").TestInfo
        THEN Outcome(files, "AttributeError", None, NoFrame, cleaned)
        ELSE Outcome(files, "none",
                     lookup(files, "Barcode", BarcodeNotFound, FALSE),
                     NoFrame, cleaned)

\* get_starttime; locked_after: the files the closing cleanup cannot remove
get_starttime(os, dir, a, locked, blocked, locked_after) ==
    LET cleaned == cleanup(os, dir, locked)
        ex == extract(cleaned.dir, a.id, a.namelist, blocked)
        files == ex.dir
        m1 == read_xml(files, "TestInfo.xml").attrib.StartTime
    IN  IF ex.raised # "none"
        THEN Outcome(files, ex.raised, None, NoFrame, cleaned)
        ELSE IF files["TestInfo.xml"] = Missing
        THEN Outcome(files, "FileNotFoundError", None, NoFrame, cleaned)
        ELSE IF ~read_xml(files, "TestInfo.xml").TestInfo
        THEN Outcome(files, "AttributeError", None, NoFrame, cleaned)
        ELSE [Outcome(cleanup(os, files, locked_after).dir, "none", m1,
                      NoFrame, cleaned)
                 EXCEPT !.printed_after =
                            cleanup(os, files, locked_after).printed]

----------------------------------------------------------------------------
(* The column names get_records hands out and rename takes back            *)
(* (ndax_functions.py).  A frame has the columns of its first row.  The    *)
(* canonical Current(A), Capacity(Ah) and Energy(Wh) are held in 1e-3 A,   *)
(* Ah and Wh, so the multiplication by 1000 that turns them into mA, mAh   *)
(* and mWh leaves the number as it is, like the division in rename.  The   *)
(* columns Validated and DCIR(mOhm) are left out.                          *)

\* df.rename(columns=rec_columns_x): one row; Voltage_V is "Voltage(V)"
rec_columns_x(r) ==
    [DataPoint |-> r.Index, Cycle_Index |-> r.Cycle, Step_Index |-> r.Step,
     Step_Type |-> r.Status, Time |-> r.Time, Voltage_V |-> r.Voltage,
     Current |-> r.Current, Capacity |-> r.Capacity, Energy |-> r.Energy,
     Timestamp |-> r.Timestamp]

\* df.rename(columns=rec_columns1) and the three mul(1000): one row
rec_columns1(r) ==
    [record_ID |-> r.Index, cycle |-> r.Cycle, step_ID |-> r.Step,
     step_name |-> r.Status, time_in_step |-> r.Time, voltage_V |-> r.Voltage,
     current_mA |-> r.Current, capacity_mAh |-> r.Capacity,
     energy_mWh |-> r.Energy, timestamp |-> r.Timestamp]

\* lines 447-458 of get_records: the frame under the names asked for
records_columns(d, renamed) ==
    [i \in 1..Len(d) |-> IF renamed THEN rec_columns_x(d[i]) ELSE rec_columns1(d[i])]

\* df.columns
columns(d) == DOMAIN d[1]

\* rename(df) as a call: df["current_mA"] raises KeyError for a frame
\* without that column
rename_call(d) ==
    IF {"current_mA", "capacity_mAh", "energy_mWh"} \subseteq columns(d)
    THEN [raised |-> "none", df |-> rename(d)]
    ELSE [raised |-> "KeyError", df |-> <<>>]

----------------------------------------------------------------------------
(* get_step (ndax_functions.py).  The frame is the one get_records returns *)
(* with rename = False; after rename its Current(A), Capacity(Ah) and      *)
(* Energy(Wh) are numbers of 1e-3 A, Ah and Wh.  The summary holds its     *)
(* currents, capacity and energy as numbers of 1e-6 A, Ah and Wh, so that  *)
(* the division by 1000 get_step applies is exact.  DCIR(mOhm) is not      *)
(* modelled.                                                               *)

\* a number of 1e-3 units written as a number of 1e-6 units
Micro(x) == 1000 * x

\* lines 842-876: the summary of the rows df2 of step i
step_summary(df2, i) ==
    LET first == df2[1]
        last == df2[Len(df2)]
    IN  [Cycle_Index |-> first.Cycle,
         Step_Number |-> i,
         Step_Type |-> first.Status,
         Step_Time |-> hhmmss(last.Time),
         Onset_Date |-> first.Timestamp,
         End_Date |-> last.Timestamp,
         Capacity |-> Micro(last.Capacity) \div 1000,
         Energy |-> Micro(last.Energy) \div 1000,
         Onset_Volt |-> first.Voltage,
         End_Voltage |-> last.Voltage,
         Starting_current |-> Micro(first.Current) \div 1000,
         Termination_current |-> Micro(last.Current) \div 1000,
         Max_Volt |-> SeqMax(Column(df2, "Voltage")),
         Min_Volt |-> SeqMin(Column(df2, "Voltage"))]

\* get_step(df) on a frame of at least one row: one summary for every i of
\* range(min(df["Step"]), max(df["Step"]) + 1); list(...)[0] raises
\* IndexError for an i without rows
get_step(frame) ==
    LET d == rename(frame)
        lo == SeqMin(Column(d, "Step"))
        hi == SeqMax(Column(d, "Step"))
        rows(i) == LET InStep(r) == r.Step = i IN SelectSeq(d, InStep)
    IN  IF \E i \in lo..hi : rows(i) = <<>>
        THEN [raised |-> "IndexError", df |-> <<>>]
        ELSE [raised |-> "none",
              df |-> [k \in 1..(hi - lo + 1) |->
                        step_summary(rows(lo + k - 1), lo + k - 1)]]

----------------------------------------------------------------------------
(* The states in which a part of the model is not in use.                  *)

NoMeta ==
    [present |-> FALSE, process_illegal |-> FALSE, start_illegal |-> FALSE,
     barcode_illegal |-> FALSE, barcode_len |-> BarcodeLength]

NoArgs == [capacity_nom |-> 0, cols |-> "canonical", meta |-> NoMeta]

NoBytes == [length |-> 0]

NoFile == [record_len |-> 0]

NotCalled == [raised |-> "idle"]

ValIdle ==
    /\ df_in = <<>>
    /\ df = <<>>
    /\ op = "idle"
    /\ args = NoArgs
    /\ verdict = "none"

DecIdle ==
    /\ bytes = NoBytes
    /\ decoded = NotCalled

ScanIdle ==
    /\ mm = NoFile
    /\ include_aux = FALSE
    /\ header = -1
    /\ reads = 0
    /\ output = <<>>
    /\ aux = <<>>
    /\ warnings = <<>>
    /\ spc = "idle"
    /\ sdf = <<>>

NdcIdle ==
    /\ npc = "idle"
    /\ ndc_files = <<>>
    /\ ndc_frames = <<>>

NoCall ==
    [fn |-> "none", archive |-> Missing, raised |-> "none", value |-> None,
     frame |-> NoFrame, cleanup |-> NoCleanup, printed_after |-> {}]

FsIdle ==
    /\ os_name = "nt"
    /\ temdata = EmptyDir
    /\ call = NoCall
    /\ calls = 0

----------------------------------------------------------------------------
(* The series the validators are applied to: a regular series of one step, *)
(* sampled every 10 s, in which up to MaxEdits fields are replaced.        *)

MaxRows == 2
MaxEdits == 2

\* one ampere (ampere-hour, watt-hour) in the 1e-8 fixed point
Amp == 10 ^ 8

NominalRow(k) ==
    [Index |-> k, Cycle |-> 1, Step |-> 1, Status |-> "CC_Chg",
     Time |-> (k - 1) * 10000, Voltage |-> 30000, Current |-> Amp,
     Capacity |-> 0, Energy |-> 0, Timestamp |-> (k - 1) * 10,
     Validated |-> TRUE]

NominalSeries(n) == [k \in 1..n |-> NominalRow(k)]

FieldValues ==
    ({"Index"} \X {0, 1, 2})
    \cup ({"Cycle"} \X {1, 2})
    \cup ({"Step"} \X {1, 2})
    \cup ({"Status"} \X {"CC_Chg", "Rest", "SIM"})
    \cup ({"Time"} \X {0, 10000})
    \cup ({"Timestamp"} \X {0, 10, 15, 16, 610})
    \cup ({"Voltage"} \X {15000, 20000, 30000})
    \cup ({"Current"} \X {0, Amp, 17 * Amp, -17 * Amp})
    \cup ({"Capacity"} \X {-1, 0, 16 * Amp})
    \cup ({"Energy"} \X {-1, 0})
    \cup ({"Validated"} \X {TRUE, FALSE})

RECURSIVE Edited(_)
Edited(k) ==
    IF k = 0 THEN {NominalSeries(n) : n \in 1..MaxRows}
    ELSE LET P == Edited(k - 1)
         IN  P \cup UNION {{[s EXCEPT ![i][fv[1]] = fv[2]] : i \in 1..Len(s), fv \in FieldValues}
                           : s \in P}

InputSeries == Edited(MaxEdits)

CapacityNoms == {1000000}

Metas ==
    {NoMeta, [NoMeta EXCEPT !.present = TRUE]}
    \cup {[NoMeta EXCEPT !.present = TRUE, ![f] = TRUE]
            : f \in {"process_illegal", "start_illegal", "barcode_illegal"}}
    \cup {[NoMeta EXCEPT !.present = TRUE, !.barcode_len = BarcodeLength - 1]}

----------------------------------------------------------------------------
(* The validator calls as actions.                                         *)

InitValidate ==
    /\ df_in \in InputSeries
    /\ df = df_in
    /\ op = "input"
    /\ args = NoArgs
    /\ verdict = "none"
    /\ DecIdle
    /\ ScanIdle
    /\ NdcIdle
    /\ FsIdle

CallValidateTimegap ==
    /\ op = "input"
    /\ df' = validate_timegap(df)
    /\ op' = "validate_timegap"
    /\ UNCHANGED <<df_in, args, verdict, decVars, scanVars, ndcVars, fsVars>>

CallValidatorFab ==
    /\ op = "input"
    /\ LET r == validator_fab(df)
       IN  /\ df' = r.df
           /\ verdict' = r.ret
    /\ op' = "validator_fab"
    /\ UNCHANGED <<df_in, args, decVars, scanVars, ndcVars, fsVars>>

CallMainValidator ==
    /\ op = "input"
    /\ \E capacity_nom \in CapacityNoms, cols \in {"canonical", "charge"}, meta \in Metas :
        /\ args' = [capacity_nom |-> capacity_nom, cols |-> cols, meta |-> meta]
        /\ LET r == main_validator(df, capacity_nom, cols, meta)
           IN  /\ df' = r.df
               /\ verdict' = r.ret
    /\ op' = "main_validator"
    /\ UNCHANGED <<df_in, decVars, scanVars, ndcVars, fsVars>>

NextValidate ==
    \/ CallValidateTimegap
    \/ CallValidatorFab
    \/ CallMainValidator

SpecValidate == InitValidate /\ [][NextValidate]_vars

----------------------------------------------------------------------------
(* Claims about the validators, checked under SpecValidate.                *)

AllValidatedIn == \A i \in 1..Len(df_in) : df_in[i].Validated

\* row i is a timestamp discontinuity: same Step as the row before, Time
\* non-zero, and the Time delta and the Timestamp delta differ by more than 5 s
IsTimegapRow(d, i) ==
    /\ i > 1
    /\ d[i].Step = d[i-1].Step
    /\ d[i].Time # 0
    /\ Abs((d[i].Time - d[i-1].Time) - 1000 * (d[i].Timestamp - d[i-1].Timestamp)) > 5000

\* C1: after validate_timegap on a series whose rows all start Validated, a
\* row has Validated = False iff it is a timestamp discontinuity, and every
\* other row keeps Validated = True.
C1_TimegapClearsExactlyGapRows ==
    (op = "validate_timegap" /\ AllValidatedIn)
        => \A i \in 1..Len(df) : (df[i].Validated = FALSE) <=> IsTimegapRow(df_in, i)

\* the call got past the pre-pass: no row is flagged False after validate_timegap
PastPrePass == ~HasFalse(validate_timegap(df_in))

IsImpossibleRest(r) == r.Status = "Rest" /\ r.Current # 0 /\ r.Time # 0

\* C2: on every run of either profile that gets past the pre-pass, the rows
\* with Status Rest, non-zero current and non-zero Time, and only they, end
\* with Validated = False.
C2_RestRowsCleared ==
    (op \in {"validator_fab", "main_validator"} /\ PastPrePass)
        => \A i \in 1..Len(df) : (df[i].Validated = FALSE) <=> IsImpossibleRest(df_in[i])

StrictlyIncreasing(s) == \A i \in 2..Len(s) : s[i-1] < s[i]

NonDecreasing(s) == \A i \in 2..Len(s) : s[i-1] <= s[i]

\* the series the basic profile requires
BasicWellFormed(d) ==
    /\ d[1].Index = 1
    /\ StrictlyIncreasing(Column(d, "Index"))
    /\ d[1].Cycle = 1
    /\ d[1].Step = 1
    /\ NonDecreasing(Column(d, "Step"))

\* C3: validator_fab returns a boolean for every series, and True for a series
\* (past the pre-pass) whose Index starts at 1 and is strictly increasing,
\* whose Cycle starts at 1 and whose Step starts at 1 and is non-decreasing.
C3_FabReturnsBoolean ==
    op = "validator_fab"
        => /\ verdict \in {"True", "False"}
           /\ (BasicWellFormed(df_in) /\ PastPrePass) => verdict = "True"

\* C4: validator_fab returns False for every series whose smallest Index is
\* not 1 or whose Index is not strictly increasing (equal neighbours included).
C4_FabRejectsBadIndex ==
    (op = "validator_fab"
        /\ (SeqMin(Column(df_in, "Index")) # 1 \/ ~StrictlyIncreasing(Column(df_in, "Index"))))
        => verdict = "False"

\* C5: main_validator returns False for every series, with or without SIM
\* rows, in which a row that is not SIM has Voltage not greater than 2.0 V
\* (stated for a series that carries the columns main_validator reads).
C5_MainRejectsLowVoltage ==
    (op = "main_validator" /\ args.cols = "charge"
        /\ \E i \in 1..Len(df_in) : df_in[i].Status # "SIM" /\ df_in[i].Voltage <= 20000)
        => verdict = "False"

\* C6: main_validator returns False whenever some row has |Current| above
\* 1600 x capacity_nom, for charge and discharge currents alike (stated for a
\* series that carries the columns main_validator reads).
C6_MainRejectsCurrentMagnitude ==
    (op = "main_validator" /\ args.cols = "charge"
        /\ \E i \in 1..Len(df_in) : Abs(df_in[i].Current) > 1600 * args.capacity_nom)
        => verdict = "False"

\* C23: main_validator applied to a series under the canonical columns
\* Capacity(Ah), Energy(Wh) returns a boolean; False when a series without
\* SIM rows has a negative Capacity or Energy, or when some Capacity exceeds
\* 1500 x capacity_nom.
C23_MainReturnsBooleanOnCanonical ==
    (op = "main_validator" /\ args.cols = "canonical")
        => /\ verdict \in {"True", "False"}
           /\ (NoSIM(df_in)
                 /\ \E i \in 1..Len(df_in) : df_in[i].Capacity < 0 \/ df_in[i].Energy < 0)
                => verdict = "False"
           /\ (\E i \in 1..Len(df_in) :
                    df_in[i].Capacity > CapacityFactor * args.capacity_nom)
                => verdict = "False"

----------------------------------------------------------------------------
(* byte_to_list applied to one record: every Range of the table and one    *)
(* that is not in it, with a few values of the fields the decode tests.    *)

NominalBytes(k) ==
    [Index |-> k, Cycle |-> 0, Step |-> 1, Status |-> 1, Time |-> (k - 1) * 10000,
     Voltage |-> 30000, Current |-> 100000, Charge_capacity |-> 0,
     Discharge_capacity |-> 0, Charge_energy |-> 0, Discharge_energy |-> 0,
     Date |-> (k - 1) * 10, Range |-> 100, b3 |-> 0, T |-> 250, length |-> 94]

DecodeInputs ==
    {[NominalBytes(1) EXCEPT !.Range = r, !.Current = c, !.Index = i, !.Step = st,
                             !.Voltage = v, !.Status = s, !.Charge_capacity = cc]
        : r \in (DOMAIN multiplier_dict) \cup {7}, c \in {100000, -100000, 1, 0},
          i \in {0, 1}, st \in {0, 1}, v \in {14999, 15000}, s \in {1, 6},
          cc \in {0, 7200}}
    \cup {[NominalBytes(1) EXCEPT !.Date = InvalidDate],
          [NominalBytes(1) EXCEPT !.length = 50]}

InitDecode ==
    /\ bytes \in DecodeInputs
    /\ decoded = NotCalled
    /\ ValIdle
    /\ ScanIdle
    /\ NdcIdle
    /\ FsIdle

CallByteToList ==
    /\ decoded = NotCalled
    /\ bytes # NoBytes
    /\ spc = "idle"
    /\ decoded' = byte_to_list(bytes)
    /\ UNCHANGED <<bytes, valVars, scanVars, ndcVars, fsVars>>

NextDecode == CallByteToList

SpecDecode == InitDecode /\ [][NextDecode]_vars

----------------------------------------------------------------------------
(* Claims about byte_to_list, checked under SpecDecode.                    *)

\* the scaling table as documented, by range class, in units of 1e-5
DocumentedRanges ==
    {-300000, -200000, -100000, -60000, -50000, -30000, -20000, -12000, -10000,
     -6000, -5000, -3000, -2000, -1000, -500, -100, -50, -25, -1, 0, 10, 100, 112,
     200, 1000, 6000, 10000, 12000, 50000, 60000, 100000}

DocumentedMultiplier(r) ==
    CASE r <= -1000 -> 1000
      [] r \in {-500, -100} -> 100
      [] r \in {-50, -25} -> 10
      [] r = -1 -> 1
      [] r = 0 -> 0
      [] r = 10 -> 100
      [] r \in {100, 112, 200} -> 1000
      [] r >= 1000 -> 10000

Decodable(b) ==
    /\ b.length >= DecodeBytes
    /\ b.Status \in DOMAIN state_dict
    /\ b.Date # InvalidDate

\* C10 (as amended): for every range of the scaling table byte_to_list decodes
\* the raw current to raw x multiplier(range) / 1000 ampere; a record with
\* range -1 and raw current 100000 decodes to Current(A) = 0.001.
C10_CurrentScaledByRange ==
    (decoded # NotCalled /\ bytes.Range \in DocumentedRanges /\ Decodable(bytes))
        => /\ decoded.raised = "none"
           /\ decoded.list.Current = bytes.Current * DocumentedMultiplier(bytes.Range)
           /\ (bytes.Range = -1 /\ bytes.Current = 100000)
                => decoded.list.Current * 1000 = Amp

C10_Witness ==
    /\ decoded # NotCalled
    /\ decoded.raised = "none"
    /\ bytes.Range = -1
    /\ bytes.Current = 100000
    /\ decoded.list.Current * 1000 = Amp

\* C10 (as claimed): a record with range -1 and raw current 100000 decodes to
\* Current(A) = 1.0.
C10_RangeMinusOneIsOneAmp ==
    (decoded # NotCalled /\ decoded.raised = "none"
        /\ bytes.Range = -1 /\ bytes.Current = 100000)
        => decoded.list.Current = Amp

----------------------------------------------------------------------------
(* to_df on a single-stream archive: the scan loop, one record per step,   *)
(* and the DataFrame steps after it. The records the scan reads are the    *)
(* regular record of the sample, or that record with one field replaced.   *)

MaxRecs == 3

Markers == {85, 101, 116, 17}

Files == {Layout94(m) : m \in Markers} \cup {Layout90(m) : m \in Markers}

RecordEdits ==
    ({"Status"} \X {0, 255, 4, 6})
    \cup ({"Index"} \X {0, 1, 2})
    \cup ({"Step"} \X {0, 2})
    \cup ({"Voltage"} \X {14999, 15000})
    \cup ({"Range"} \X {-1, 7})
    \cup ({"Current"} \X {0})
    \cup ({"Time"} \X {0})
    \cup ({"Date"} \X {InvalidDate, 610})
    \cup ({"b3"} \X {101, 116})
    \cup ({"length"} \X {12, 50})

RecordInputs(k, m) ==
    LET nominal == [NominalBytes(k) EXCEPT !.length = m.record_len]
    IN  {nominal} \cup {[nominal EXCEPT ![e[1]] = e[2]] : e \in RecordEdits}

\* mm.find(onset): the first match is at the fixed position or before it
\* (here at byte 2 of the file)
FirstMatches(m) == {m.onset_at, 2}

\* mm.find(onset, start): the next match at or after start, -1 for none
NextMatches(start) == {start, start + 6, -1}

InitScan ==
    /\ mm \in Files
    /\ include_aux \in BOOLEAN
    /\ header \in FirstMatches(mm)
    /\ reads = 0
    /\ bytes = NoBytes
    /\ output = <<>>
    /\ aux = <<>>
    /\ warnings = <<>>
    /\ spc = "scan"
    /\ sdf = <<>>
    /\ decoded = NotCalled
    /\ ValIdle
    /\ NdcIdle
    /\ FsIdle

\* mm.seek(header - offset) with a match in the first bytes of the file
SeekRaises ==
    /\ spc = "scan"
    /\ header # -1
    /\ header - mm.offset < 0
    /\ spc' = "raised"
    /\ UNCHANGED <<mm, include_aux, header, reads, output, aux, warnings, sdf>>
    /\ UNCHANGED <<valVars, decVars, ndcVars, fsVars>>

\* one iteration of the while loop (lines 299-315)
ScanRecord ==
    /\ spc = "scan"
    /\ header # -1
    /\ header - mm.offset >= 0
    /\ reads < MaxRecs
    /\ \E b \in RecordInputs(reads + 1, mm),
          nxt \in NextMatches(header - mm.offset + mm.record_len) :
        /\ (b.length < mm.record_len \/ reads + 1 = MaxRecs) => nxt = -1
        /\ LET r == ScanBody(mm, b, include_aux, output, aux, warnings)
           IN  /\ bytes' = b
               /\ reads' = reads + 1
               /\ output' = r.output
               /\ aux' = r.aux
               /\ warnings' = r.warnings
               /\ spc' = IF r.raised = "none" THEN "scan" ELSE "raised"
               /\ header' = IF r.raised = "none" THEN nxt ELSE header
    /\ UNCHANGED <<mm, include_aux, sdf, decoded, valVars, ndcVars, fsVars>>

\* the loop has ended: lines 318-359
ScanFinish ==
    /\ spc = "scan"
    /\ header = -1
    /\ LET r == to_df_frame(output, aux, include_aux)
       IN  /\ spc' = IF r.raised = "none" THEN "done" ELSE "raised"
           /\ sdf' = r.df
    /\ UNCHANGED <<mm, include_aux, header, reads, output, aux, warnings>>
    /\ UNCHANGED <<valVars, decVars, ndcVars, fsVars>>

NextScan ==
    \/ SeekRaises
    \/ ScanRecord
    \/ ScanFinish

SpecScan == InitScan /\ [][NextScan]_vars

----------------------------------------------------------------------------
(* Claims about the single-stream scan, checked under SpecScan.            *)

\* the scan has just read a primary record with a valid status byte
ReadPrimary ==
    /\ spc = "scan"
    /\ reads > 0
    /\ mm.marker = 85
    /\ bytes.Status \notin {0, 255}

FailsPreCheck(b) == b.Index < 1 \/ b.Cycle + 1 < 1 \/ b.Step < 1 \/ b.Voltage < 15000

\* C7 (as amended): the pre-check does not reject a record: a primary record
\* read by the scan is appended to the sequence, with Validated = False iff
\* its Index, Cycle or Step is not positive or its Voltage is below 1.5 V.
C7_PreCheckFlagsRecord ==
    ReadPrimary
        => /\ Len(output) >= 1
           /\ output[Len(output)].Index = bytes.Index
           /\ output[Len(output)].Voltage = bytes.Voltage
           /\ output[Len(output)].Validated = ~FailsPreCheck(bytes)

C7_Witness ==
    /\ ReadPrimary
    /\ FailsPreCheck(bytes)
    /\ Len(output) >= 1
    /\ output[Len(output)].Index = bytes.Index
    /\ output[Len(output)].Validated = FALSE

\* C7 (as claimed): no row of the sequence to_df returns has a non-positive
\* Index or a Voltage below 1.5 V.
C7_NoRejectedRowReturned ==
    spc = "done" => \A i \in 1..Len(sdf) : sdf[i].Index >= 1 /\ sdf[i].Voltage >= 15000

\* the record's marker byte is none of 0x55, 0x65, 0x74
IsUnknownMarker(m, b) == m.marker # 85 /\ AuxId(m, b) \notin {101, 116}

\* C8: a record read by the scan logs an unknown-record warning iff its marker
\* byte is none of 0x55, 0x65, 0x74; such a record adds no row, raises
\* nothing, and the scan goes on.
C8_WarningIffUnknownMarker ==
    [][(spc = "scan" /\ reads' = reads + 1)
        => /\ (Len(warnings') = Len(warnings) + 1) <=> IsUnknownMarker(mm, bytes')
           /\ IsUnknownMarker(mm, bytes')
                => (output' = output /\ aux' = aux /\ spc' = "scan")]_vars

\* the scan loop has ended and the DataFrame steps have run
ScanFinished == header = -1 /\ spc \in {"done", "raised"}

\* C12: with include_aux set, the joined output has exactly one row for every
\* primary record Index the scan decoded, whether the Index has no, one or
\* several auxiliary records.
C12_AuxJoinKeepsEveryIndex ==
    (ScanFinished /\ include_aux /\ output # <<>>)
        => /\ spc = "done"
           /\ \A k \in 1..Len(output) :
                  Cardinality({i \in 1..Len(sdf) : sdf[i].Index = output[k].Index}) = 1
           /\ \A i \in 1..Len(sdf) :
                  \E k \in 1..Len(output) : sdf[i].Index = output[k].Index

----------------------------------------------------------------------------
(* to_df on a three-stream archive (lines 250-263): the three decoder      *)
(* calls, in the order of the code. Each call reads its stream when it is  *)
(* made. The merge, fabricate and validator_fab steps that follow are not  *)
(* part of this specification.                                             *)

MaxNdcRecs == 1

Versions == {5, 11, 14, 17}

SeqsUpTo(S, n) == UNION {[1..k -> S] : k \in 1..n}

DataStreams ==
    {[version |-> v, recs |-> r] :
        v \in Versions,
        r \in SeqsUpTo([Voltage : {0, 30000}, Current : {1000}], MaxNdcRecs)}

RunInfoStreams ==
    {[version |-> v, recs |-> r] :
        v \in Versions,
        r \in SeqsUpTo([Time : {0}, Charge_Capacity : {7200}, Discharge_Capacity : {0},
                        Charge_Energy : {3600}, Discharge_Energy : {0},
                        Timestamp : {3600}, Step : {1, 2}, Index : {0, 1, 2}],
                       MaxNdcRecs)}

StepStreams ==
    {[version |-> v, recs |-> r] :
        v \in Versions,
        r \in SeqsUpTo([Cycle : {0}, Step_Index : {0, 1}, Status : {1, 6}], MaxNdcRecs)}

InitNdc ==
    /\ npc = "data_ndc"
    /\ ndc_files = <<>>
    /\ ndc_frames = <<>>
    /\ ValIdle
    /\ DecIdle
    /\ ScanIdle
    /\ FsIdle

\* data_df = data_ndc(data_file)
CallDataNdc ==
    /\ npc = "data_ndc"
    /\ \E file \in DataStreams :
        LET r == data_ndc(file)
        IN  /\ ndc_files' = Append(ndc_files, file)
            /\ ndc_frames' = Append(ndc_frames, r)
            /\ npc' = IF r.raised = "none" THEN "data_runInfo_ndc" ELSE "raised"
    /\ UNCHANGED <<valVars, decVars, scanVars, fsVars>>

\* runInfo_df = data_runInfo_ndc(runInfo_file)
CallDataRunInfoNdc ==
    /\ npc = "data_runInfo_ndc"
    /\ \E file \in RunInfoStreams :
        LET r == data_runInfo_ndc(file)
        IN  /\ ndc_files' = Append(ndc_files, file)
            /\ ndc_frames' = Append(ndc_frames, r)
            /\ npc' = IF r.raised = "none" THEN "data_step_ndc" ELSE "raised"
    /\ UNCHANGED <<valVars, decVars, scanVars, fsVars>>

\* step_df = data_step_ndc(step_file)
CallDataStepNdc ==
    /\ npc = "data_step_ndc"
    /\ \E file \in StepStreams :
        LET r == data_step_ndc(file)
        IN  /\ ndc_files' = Append(ndc_files, file)
            /\ ndc_frames' = Append(ndc_frames, r)
            /\ npc' = IF r.raised = "none" THEN "decoded" ELSE "raised"
    /\ UNCHANGED <<valVars, decVars, scanVars, fsVars>>

NextNdc ==
    \/ CallDataNdc
    \/ CallDataRunInfoNdc
    \/ CallDataStepNdc

SpecNdc == InitNdc /\ [][NextNdc]_vars

----------------------------------------------------------------------------
(* Claims about the three-stream decode, checked under SpecNdc.            *)

\* the versions the code names: 11 (line 121) and 14 (line 124)
KnownVersions == {11, 14}

\* C9: when a stream of a three-stream archive carries a format-version byte
\* that is not in the known set, the decode aborts with an error: no such
\* stream is decoded into a frame (stated for the run-info and step-identity
\* streams, the second and third read).
C9_UnknownVersionAborts ==
    \A i \in 2..Len(ndc_files) :
        ndc_files[i].version \notin KnownVersions => ndc_frames[i].raised # "none"

----------------------------------------------------------------------------
(* fabricate applied to a merged three-stream series (to_df, line 273),    *)
(* and applied once more to what it produced. The series is sampled every  *)
(* Tick seconds; rows without a run-info entry miss Time, Capacity, Energy *)
(* and Timestamp together, and the first row has one.                      *)

MaxFabRows == 4

\* the sampling interval: divisible by every gap length the interpolation
\* divides by, so that the interpolated values are integers
Tick == 3 * 4 * 5

\* the Step columns: 1 at the first row, then the same or the next step
FabSteps(n) ==
    {s \in [1..n -> 1..n] : s[1] = 1 /\ \A i \in 2..n : s[i] - s[i-1] \in {0, 1}}

\* the row of step s with Time t at position k; odd steps charge at 2 A,
\* even steps rest
FabRow(k, s, t) ==
    LET cur == IF s % 2 = 1 THEN 2 ELSE 0
    IN  [Time |-> t,
         Capacity |-> Times(t, cur),
         Energy |-> Times(Times(t, cur), 3),
         Timestamp |-> IF notnull(t) THEN 1000 * Tick + k * Tick ELSE NaN,
         Voltage |-> 3, Current |-> cur,
         Cycle |-> 1, Step |-> s,
         Status |-> IF s % 2 = 1 THEN "CC_Chg" ELSE "Rest"]

FabTimes == {NaN, 0, Tick, 2 * Tick}

FabInputs ==
    UNION {{[k \in 1..n |-> FabRow(k, s[k], t[k])] :
                s \in FabSteps(n),
                t \in {u \in [1..n -> FabTimes] : notnull(u[1])}} :
           n \in 1..MaxFabRows}

InitFabricate ==
    /\ df_in \in FabInputs
    /\ df = df_in
    /\ op = "input"
    /\ args = NoArgs
    /\ verdict = "none"
    /\ DecIdle
    /\ ScanIdle
    /\ NdcIdle
    /\ FsIdle

\* fabricate(data_df)
CallFabricate ==
    /\ op = "input"
    /\ df' = fabricate(df_in).df
    /\ verdict' = fabricate(df_in).raised
    /\ op' = "fabricate"
    /\ UNCHANGED <<df_in, args, decVars, scanVars, ndcVars, fsVars>>

\* fabricate applied to the series a first call returned; a series that got
\* a row labelled -1 is not passed on
CallFabricateAgain ==
    /\ op = "fabricate"
    /\ verdict = "none"
    /\ Len(df) = Len(df_in)
    /\ df_in' = df
    /\ df' = fabricate(df).df
    /\ verdict' = fabricate(df).raised
    /\ op' = "fabricate_again"
    /\ UNCHANGED <<args, decVars, scanVars, ndcVars, fsVars>>

NextFabricate ==
    \/ CallFabricate
    \/ CallFabricateAgain

SpecFabricate == InitFabricate /\ [][NextFabricate]_vars

----------------------------------------------------------------------------
(* Claims about fabricate.                                                 *)

FilledColumns == {"Time", "Capacity", "Energy", "Timestamp"}

Fabricated == op \in {"fabricate", "fabricate_again"}

Complete(d) == \A i \in 1..Len(d) : \A f \in FilledColumns : notnull(d[i][f])

\* C11: fabricate never changes a Time, Capacity, Energy or Timestamp value
\* that is present in the series it is given, and changes no value at all of
\* a series in which none is missing.
C11_FabricateKeepsPresentValues ==
    Fabricated =>
        /\ \A i \in 1..Len(df_in) : \A f \in FilledColumns :
               notnull(df_in[i][f]) => df[i][f] = df_in[i][f]
        /\ Complete(df_in) => \A i \in 1..Len(df_in) : df[i] = df_in[i]

\* row i of the series had no Time and got its values from fabricate
Reconstructed(i) == ~notnull(df_in[i].Time)

\* the Time of the result is an elapsed time: 0 at the first row of every
\* step and growing within the step
ProperTime ==
    /\ df[1].Time = 0
    /\ \A i \in 2..Len(df) :
          IF df[i].Step = df[i-1].Step THEN df[i].Time > df[i-1].Time
          ELSE df[i].Time = 0

\* the call returned, every Time and Capacity of the result is a number and
\* its Time is an elapsed time
CapacityFilled ==
    /\ op = "fabricate"
    /\ verdict = "none"
    /\ Len(df) = Len(df_in)
    /\ \A i \in 1..Len(df) : notnull(df[i].Time) /\ notnull(df[i].Capacity)
    /\ ProperTime

\* C25: in a series fabricate returns with a proper Time, every row with Time = 0 has
\* Capacity 0, and of two neighbouring reconstructed rows of one step the
\* second has the capacity of the first when its current is zero, and never
\* less than the first.
C25_ReconstructedCapacity ==
    CapacityFilled =>
        /\ \A i \in 1..Len(df) : df[i].Time = 0 => df[i].Capacity = 0
        /\ \A i \in 2..Len(df) :
              (Reconstructed(i - 1) /\ Reconstructed(i) /\ df[i].Step = df[i-1].Step)
              => /\ df[i].Capacity >= df[i-1].Capacity
                 /\ df[i].Current = 0 => df[i].Capacity = df[i-1].Capacity

----------------------------------------------------------------------------
(* get_cycle applied to a frame of get_records: up to MaxCycleRows rows,   *)
(* numbered from 1, whose cycle starts at 1 and stays, or goes up by one   *)
(* or by two, from row to row.                                             *)

MaxCycleRows == 5

CycleColumns(n) ==
    {c \in [1..n -> 1..(2 * n)] : c[1] = 1 /\ \A i \in 2..n : c[i] - c[i-1] \in {0, 1, 2}}

CycleStatuses == {"Rest", "CC_Chg", "CC_Dchg"}

\* row k of a frame of get_records
RecordsRow(k, c, s) ==
    [record_ID |-> k, cycle |-> c, step_ID |-> k, step_name |-> s,
     time_in_step |-> 1800 * k + k, voltage_V |-> 30000 + 1000 * k,
     current_mA |-> IF s = "Rest" THEN 0 ELSE IF SearchDchg(s) THEN -500 ELSE 500,
     capacity_mAh |-> 100 * k, energy_mWh |-> 300 * k, timestamp |-> 3600 * k]

InitCycle ==
    /\ \E n \in 1..MaxCycleRows :
         \E c \in CycleColumns(n), s \in [1..n -> CycleStatuses] :
            df_in = [k \in 1..n |-> RecordsRow(k, c[k], s[k])]
    /\ df = <<>>
    /\ op = "input"
    /\ args = NoArgs
    /\ verdict = "none"
    /\ DecIdle
    /\ ScanIdle
    /\ NdcIdle
    /\ FsIdle

\* get_cycle(df)
CallGetCycle ==
    /\ op = "input"
    /\ df' = get_cycle(df_in).df
    /\ verdict' = get_cycle(df_in).raised
    /\ op' = "get_cycle"
    /\ UNCHANGED <<df_in, args, decVars, scanVars, ndcVars, fsVars>>

NextCycle == CallGetCycle

SpecCycle == InitCycle /\ [][NextCycle]_vars

----------------------------------------------------------------------------
(* Claims about get_cycle.                                                 *)

CycleValues == {df_in[i].cycle : i \in 1..Len(df_in)}

\* the cycle has a row of a charge-type step
HasChargeStep(c) ==
    \E i \in 1..Len(df_in) :
        df_in[i].cycle = c /\ SearchChg(df_in[i].step_name) /\ ~SearchDchg(df_in[i].step_name)

\* the cycle has a row of a discharge-type step
HasDischargeStep(c) ==
    \E i \in 1..Len(df_in) : df_in[i].cycle = c /\ SearchDchg(df_in[i].step_name)

\* the cycle has rows of the two statuses the summary reads
HasSummaryRows(c) ==
    /\ \E i \in 1..Len(df_in) :
           df_in[i].cycle = c /\ df_in[i].step_name = chg_temp(rename(df_in))
    /\ \E i \in 1..Len(df_in) :
           df_in[i].cycle = c /\ df_in[i].step_name = dchg_temp(rename(df_in))

\* the Cycle values of the series are 1, 2, ... without a gap
Contiguous == CycleValues = 1..SetMax(CycleValues)

\* C13: given a series in which some cycle has no charge-type step or no
\* discharge-type step, get_cycle does not raise and returns the summary row
\* of every other cycle.
C13_MissingStepTolerated ==
    (/\ op = "get_cycle"
     /\ Contiguous
     /\ \E c \in CycleValues : ~HasChargeStep(c) \/ ~HasDischargeStep(c)
     /\ \E c \in CycleValues : HasSummaryRows(c))
    => /\ verdict = "none"
       /\ \A c \in CycleValues \ {SetMax(CycleValues)} :
              HasSummaryRows(c) => \E k \in 1..Len(df) : df[k].Cycle = c

\* C14: get_cycle returns exactly one summary row for every distinct Cycle
\* value of the series, in increasing cycle order, the last cycle included
\* whatever its number of rows.
C14_OneRowPerCycle ==
    (/\ op = "get_cycle"
     /\ Contiguous
     /\ \A c \in CycleValues : HasSummaryRows(c))
    => /\ verdict = "none"
       /\ {df[k].Cycle : k \in 1..Len(df)} = CycleValues
       /\ \A k \in 2..Len(df) : df[k-1].Cycle < df[k].Cycle

----------------------------------------------------------------------------
(* The match test of get_recipe applied to two signatures of one or two    *)
(* steps: the second is the first, or the first with one value replaced,   *)
(* or with its last step left out.                                         *)

MaxSteps == 2

SignatureValues == {-3, 3, 7, 9}

\* a signature row of a charge or rest step with Voltage v
SignatureRow(status, v) ==
    [Status |-> status, Rest_time |-> IF status = "Rest" THEN 600 ELSE 0,
     Voltage |-> v, Current |-> 1, Cutoff_current |-> 0, Cutoff_voltage |-> 0]

Signatures ==
    UNION {{[k \in 1..n |-> SignatureRow(st[k], v[k])] :
                st \in [1..n -> {"CC_Chg", "Rest"}], v \in [1..n -> SignatureValues]} :
           n \in 1..MaxSteps}

SignatureEdits ==
    (DiffFields \X SignatureValues)
    \cup ({"Status"} \X {"CC_Chg", "Rest"})
    \cup ({"Rest_time"} \X {0, 600, 900})

Variants(sig) ==
    {sig, SubSeq(sig, 1, Len(sig) - 1)}
    \cup {[sig EXCEPT ![k][e[1]] = e[2]] : k \in 1..Len(sig), e \in SignatureEdits}

InitMatch ==
    /\ \E a \in Signatures : \E b \in Variants(a) : df_in = <<a, b>>
    /\ df = <<>>
    /\ op = "input"
    /\ args = NoArgs
    /\ verdict = "none"
    /\ DecIdle
    /\ ScanIdle
    /\ NdcIdle
    /\ FsIdle

\* df1.shape == df2.shape and df_diff(df1, df2) == 1
CallRecipeMatch ==
    /\ op = "input"
    /\ verdict' = IF recipe_match(df_in[1], df_in[2]) THEN "True" ELSE "False"
    /\ op' = "recipe_match"
    /\ UNCHANGED <<df_in, df, args, decVars, scanVars, ndcVars, fsVars>>

NextMatch == CallRecipeMatch

SpecMatch == InitMatch /\ [][NextMatch]_vars

\* the two signatures have the same number of steps, the same ordered Status
\* and rest-duration values, and every corresponding numeric field differs
\* by at most 0.05
WithinTolerance(a, b) ==
    /\ Len(a) = Len(b)
    /\ Column(a, "Status") = Column(b, "Status")
    /\ Column(a, "Rest_time") = Column(b, "Rest_time")
    /\ \A i \in 1..Len(a) : \A f \in DiffFields : Abs(a[i][f] - b[i][f]) <= 5

\* C15: the match test accepts two signatures iff they have the same number
\* of steps, the same ordered Status and rest-duration values, and every
\* corresponding voltage, current, cutoff-current and cutoff-voltage value
\* differs by at most 0.05.
C15_MatchIffWithinTolerance ==
    op = "recipe_match" => (verdict = "True" <=> WithinTolerance(df_in[1], df_in[2]))

----------------------------------------------------------------------------
(* get_recipe applied to a frame of get_records of 2 to MaxRecipeCycles    *)
(* cycles, numbered from 1. Every cycle runs one of the Protocols; a step  *)
(* has two rows, the first at time 0 and the last at its duration.         *)

MaxRecipeCycles == 3

\* a step of a protocol: its status, voltage set-point (1e-3 V), duration (s)
ProtocolStep(status, volt, dur) == [status |-> status, volt |-> volt, dur |-> dur]

Protocols ==
    {<<ProtocolStep("Rest", 3600, 600), ProtocolStep("CC_Chg", v, 3600),
       ProtocolStep("CC_Dchg", 2800, 3000)>> : v \in {4200, 4240, 4260}}
    \cup {<<ProtocolStep("Rest", 3600, 900), ProtocolStep("CC_Chg", 4200, 3600),
            ProtocolStep("CC_Dchg", 2800, 3000)>>,
          <<ProtocolStep("CC_Chg", 4200, 3600), ProtocolStep("CC_Dchg", 2800, 3000)>>}

\* row q of cycle c running protocol p, whose first step is number base + 1
ProtocolRow(c, p, base, q) ==
    LET j == (q + 1) \div 2
        first == q % 2 = 1
        st == p[j]
    IN  [record_ID |-> 0, cycle |-> c, step_ID |-> base + j, step_name |-> st.status,
         time_in_step |-> IF first THEN 0 ELSE st.dur,
         voltage_V |-> IF ~first \/ st.status = "Rest" THEN st.volt
                       ELSE IF st.status = "CC_Chg" THEN st.volt - 200
                       ELSE st.volt + 500,
         current_mA |-> IF st.status = "Rest" THEN 0
                        ELSE IF st.status = "CC_Chg"
                            THEN (IF first THEN 6000 ELSE 300)
                        ELSE -6000,
         capacity_mAh |-> 100 * q, energy_mWh |-> 300 * q,
         timestamp |-> 10000 * c + 10 * q]

RECURSIVE ProtocolRows(_, _, _)
\* the rows of the cycles c, c + 1, ... of protos
ProtocolRows(protos, c, base) ==
    IF c > Len(protos) THEN <<>>
    ELSE [q \in 1..(2 * Len(protos[c])) |-> ProtocolRow(c, protos[c], base, q)]
         \o ProtocolRows(protos, c + 1, base + Len(protos[c]))

\* the frame of the cycles protos, with the records numbered from 1
RecipeFrame(protos) ==
    LET rows == ProtocolRows(protos, 1, 0)
    IN  [k \in 1..Len(rows) |-> [rows[k] EXCEPT !.record_ID = k]]

InitRecipe ==
    /\ \E n \in 2..MaxRecipeCycles : \E protos \in [1..n -> Protocols] :
          df_in = RecipeFrame(protos)
    /\ df = <<>>
    /\ op = "input"
    /\ args = NoArgs
    /\ verdict = "none"
    /\ DecIdle
    /\ ScanIdle
    /\ NdcIdle
    /\ FsIdle

\* get_recipe(df)
CallGetRecipe ==
    /\ op = "input"
    /\ df' = get_recipe(df_in).df
    /\ verdict' = get_recipe(df_in).raised
    /\ op' = "get_recipe"
    /\ UNCHANGED <<df_in, args, decVars, scanVars, ndcVars, fsVars>>

NextRecipe == CallGetRecipe

SpecRecipe == InitRecipe /\ [][NextRecipe]_vars

\* the rows of cycle c without the columns that number them
ProtocolOf(c) ==
    LET InCycle(r) == r.cycle = c
        rows == SelectSeq(df_in, InCycle)
    IN  [k \in 1..Len(rows) |->
            <<rows[k].step_name, rows[k].time_in_step, rows[k].voltage_V,
              rows[k].current_mA>>]

LastCycle == SeqMax([i \in 1..Len(df_in) |-> df_in[i].cycle])

\* every cycle of the series ran the same step protocol
SameProtocol == \A c \in 1..LastCycle : ProtocolOf(c) = ProtocolOf(1)

\* C16: for a series of two or more cycles that all ran the same step
\* protocol, get_recipe returns exactly one recipe group, and the ranges of
\* that group cover every cycle from the first to the last.
C16_OneGroupSpansAllCycles ==
    (op = "get_recipe" /\ SameProtocol)
    => /\ verdict = "none"
       /\ Len(df) = 1
       /\ \A c \in 1..LastCycle :
              \E n \in 1..Len(df[1].ranges) :
                  df[1].ranges[n][1] <= c /\ c <= df[1].ranges[n][2]

----------------------------------------------------------------------------
(* The working directory over a sequence of serialized calls.  Each call   *)
(* is one step: it takes an archive, and the environment decides which     *)
(* files of the directory refuse to be removed (locked), whether these     *)
(* still refuse to be overwritten at extraction (blocked), and whether the *)
(* files refuse to be removed when get_starttime closes (locked_after).    *)

MaxCalls == 2

InitWorkdir ==
    /\ os_name \in {"nt", "posix"}
    /\ temdata = EmptyDir
    /\ call = NoCall
    /\ calls = 0
    /\ ValIdle
    /\ DecIdle
    /\ ScanIdle
    /\ NdcIdle

\* the call fn(a) ends with the outcome out
Returned(fn, a, out) ==
    /\ calls < MaxCalls
    /\ calls' = calls + 1
    /\ temdata' = out.dir
    /\ call' = [fn |-> fn, archive |-> a.id, raised |-> out.raised,
                value |-> out.value, frame |-> out.frame,
                cleanup |-> out.cleanup, printed_after |-> out.printed_after]
    /\ UNCHANGED <<os_name, valVars, decVars, scanVars, ndcVars>>

\* to_df(file)
CallToDf ==
    \E a \in Archives : \E locked \in SUBSET listdir(temdata) :
    \E blocked \in {{}, locked} :
        \E out \in {to_df(os_name, temdata, a, locked, blocked)} :
            Returned("to_df", a, out)

\* get_remarks(ndax_file)
CallGetRemarks ==
    \E a \in Archives : \E locked \in SUBSET listdir(temdata) :
    \E blocked \in {{}, locked} :
        \E out \in {get_remarks(os_name, temdata, a, locked, blocked)} :
            Returned("get_remarks", a, out)

\* get_process_name(ndax_file)
CallGetProcessName ==
    \E a \in Archives : \E locked \in SUBSET listdir(temdata) :
    \E blocked \in {{}, locked} :
        \E out \in {get_process_name(os_name, temdata, a, locked, blocked)} :
            Returned("get_process_name", a, out)

\* get_barcode(ndax_file)
CallGetBarcode ==
    \E a \in Archives : \E locked \in SUBSET listdir(temdata) :
    \E blocked \in {{}, locked} :
        \E out \in {get_barcode(os_name, temdata, a, locked, blocked)} :
            Returned("get_barcode", a, out)

\* get_starttime(ndax_file)
CallGetStarttime ==
    \E a \in Archives : \E locked \in SUBSET listdir(temdata) :
    \E blocked \in {{}, locked} : \E locked_after \in {{}, MemberNames} :
        \E out \in {get_starttime(os_name, temdata, a, locked, blocked, locked_after)} :
            Returned("get_starttime", a, out)

NextWorkdir ==
    \/ CallToDf
    \/ CallGetRemarks
    \/ CallGetProcessName
    \/ CallGetBarcode
    \/ CallGetStarttime

SpecWorkdir == InitWorkdir /\ [][NextWorkdir]_vars

CallEnded == call.fn # "none"

\* no file refused to be removed during the call
NothingLocked == call.cleanup.printed = {} /\ call.printed_after = {}

\* C17: when a decode or metadata call has ended, by return or by raise, on
\* a system where no file refuses removal, the working directory holds no
\* extracted member.
C17_DirectoryClearedAfterCall ==
    (CallEnded /\ os_name = "nt" /\ NothingLocked) => temdata = EmptyDir

\* C18: every file whose removal raised PermissionError in the cleanup at
\* the head of a call was tried exactly twice, the attempt and one retry,
\* and no file was tried more often than that.
C18_RemovalRetriedOnce ==
    CallEnded =>
        /\ \A n \in call.cleanup.printed : call.cleanup.attempts[n] = 2
        /\ \A n \in MemberNames : call.cleanup.attempts[n] <= 2

\* to_df of the archive a alone, in an empty working directory
Alone(a) == to_df("nt", EmptyDir, a, {}, {})

\* C19: the frame a decode call returns for an archive that holds data.ndc,
\* its format variant and the streams its rows are decoded from, is the
\* frame the same call returns in an empty working directory, whatever calls
\* came before it and whatever files they left behind.
C19_ResultDependsOnArchiveOnly ==
    (/\ call.fn = "to_df"
     /\ os_name = "nt"
     /\ call.raised = "none"
     /\ "data.ndc" \in Members(Archive(call.archive)))
    => call.frame = Alone(Archive(call.archive)).frame

Accessors == {"get_barcode", "get_process_name", "get_remarks", "get_starttime"}

\* the archive has both XML members, with a TestInfo element in the primary
WellFormed(a) ==
    /\ XmlNames \subseteq Members(a)
    /\ a.xml["TestInfo.xml"].TestInfo

\* the XML metadata of archive a lacks the field accessor fn asks for
Lacks(a, fn) ==
    LET NoField(field) ==
            /\ a.xml["TestInfo.xml"].attrib[field] = None
            /\ \A n \in XmlNames : a.xml[n].Head_Info[field] = NoElement
    IN  CASE fn = "get_remarks" -> a.xml["Step.xml"].Head_Info.Remark = NoElement
          [] fn = "get_process_name" -> NoField("StepName")
          [] fn = "get_barcode" -> NoField("Barcode")
          [] fn = "get_starttime" -> a.xml["TestInfo.xml"].attrib.StartTime = None

Sentinels == {RemarkNotFound, StepNameNotFound, BarcodeNotFound}

\* C20: a metadata accessor applied to an archive whose XML members are in
\* place but lack the requested field returns a not-found sentinel string:
\* it does not raise and does not return None.
C20_MissingFieldGivesSentinel ==
    (/\ call.fn \in Accessors
     /\ call.raised # "PermissionError"
     /\ WellFormed(Archive(call.archive))
     /\ Lacks(Archive(call.archive), call.fn))
    => /\ call.raised = "none"
       /\ call.value \in Sentinels

\* the value the secondary XML member of archive a carries for field
Secondary(a, field) == a.xml["Step.xml"].Head_Info[field]

\* the primary XML member lacks field and the secondary member carries it
OnlyInSecondary(a, field) ==
    /\ WellFormed(a)
    /\ a.xml["TestInfo.xml"].attrib[field] = None
    /\ a.xml["TestInfo.xml"].Head_Info[field] = NoElement
    /\ Secondary(a, field) \notin {NoElement, None}

\* the field accessor fn asks for
FieldOf(fn) == IF fn = "get_barcode" THEN "Barcode" ELSE "StepName"

\* C21: get_barcode and get_process_name, applied to an archive whose
\* primary XML member lacks the field while the secondary member carries it,
\* return the value of the secondary member (for the process name, with or
\* without its ".xml" ending).
C21_FallbackReadsSecondaryMember ==
    (/\ call.fn \in {"get_barcode", "get_process_name"}
     /\ call.raised # "PermissionError"
     /\ OnlyInSecondary(Archive(call.archive), FieldOf(call.fn)))
    => /\ call.raised = "none"
       /\ call.value \in {Secondary(Archive(call.archive), FieldOf(call.fn)),
                           strip(Secondary(Archive(call.archive), FieldOf(call.fn)),
                                 DotXml)}

----------------------------------------------------------------------------
(* get_records followed by rename: a decoded canonical frame is handed out *)
(* under one of the two column-name sets and given to rename.              *)

MaxRenameRows == 2

\* row k of a decoded frame
CanonicalRow(k, cur, cap, eng) ==
    [Index |-> k, Cycle |-> 1, Step |-> 1,
     Status |-> IF cur = 0 THEN "Rest" ELSE IF cur < 0 THEN "CC_Dchg" ELSE "CC_Chg",
     Time |-> 10 * (k - 1), Voltage |-> 37000, Current |-> cur,
     Capacity |-> cap, Energy |-> eng, Timestamp |-> 10 * k]

InitRename ==
    /\ \E n \in 1..MaxRenameRows :
         \E cur \in [1..n -> {-500, 0, 500}], cap \in [1..n -> {0, 100}],
            eng \in [1..n -> {0, 300}] :
            df_in = [k \in 1..n |-> CanonicalRow(k, cur[k], cap[k], eng[k])]
    /\ df = <<>>
    /\ op = "input"
    /\ \E renamed \in BOOLEAN : args = [rename |-> renamed]
    /\ verdict = "none"
    /\ DecIdle
    /\ ScanIdle
    /\ NdcIdle
    /\ FsIdle

\* get_records(file, rename=args.rename), from the frame to_df returned
CallGetRecords ==
    /\ op = "input"
    /\ df' = records_columns(df_in, args.rename)
    /\ op' = "get_records"
    /\ UNCHANGED <<df_in, args, verdict, decVars, scanVars, ndcVars, fsVars>>

\* rename(df), the first statement of get_step, get_cycle and get_recipe
CallRename ==
    /\ op = "get_records"
    /\ df' = rename_call(df).df
    /\ verdict' = rename_call(df).raised
    /\ op' = "rename"
    /\ UNCHANGED <<df_in, args, decVars, scanVars, ndcVars, fsVars>>

NextRename == CallGetRecords \/ CallRename

SpecRename == InitRename /\ [][NextRename]_vars

\* C22: rename accepts the frame of get_records under either column-name
\* set and returns the decoded frame, every column under its canonical name
\* and every value as decoded.
C22_RenameSupportsBothColumnSets ==
    op = "rename" => (verdict = "none" /\ df = df_in)

----------------------------------------------------------------------------
(* count_changes applied to a column of raw step ids.                      *)

MaxIds == 4

RawIds == {1, 2, 3}

InitCount ==
    /\ \E n \in 0..MaxIds : df_in \in [1..n -> RawIds]
    /\ df = <<>>
    /\ op = "input"
    /\ args = NoArgs
    /\ verdict = "none"
    /\ DecIdle
    /\ ScanIdle
    /\ NdcIdle
    /\ FsIdle

\* ndax_basic.count_changes(df.Step)
CallCountChanges ==
    /\ op = "input"
    /\ df' = count_changes_call(df_in).value
    /\ verdict' = count_changes_call(df_in).raised
    /\ op' = "count_changes"
    /\ UNCHANGED <<df_in, args, decVars, scanVars, ndcVars, fsVars>>

NextCount == CallCountChanges

SpecCount == InitCount /\ [][NextCount]_vars

\* the result numbers the runs of the raw ids: it is as long as the ids, and
\* each number is the one before it, plus 1 where the raw id changes
NumbersRuns ==
    /\ verdict = "none"
    /\ Len(df) = Len(df_in)
    /\ \A i \in 1..Len(df) :
          df[i] = IF i = 1 THEN 1
                  ELSE IF df_in[i] # df_in[i-1] THEN df[i-1] + 1 ELSE df[i-1]

----------------------------------------------------------------------------
(* get_step applied to a frame of get_records: up to MaxStepRows rows,     *)
(* numbered from 1, whose step starts at 1 and stays, or goes up by one or *)
(* by two, from row to row.                                                *)

MaxStepRows == 3

StepColumns(n) ==
    {s \in [1..n -> 1..(2 * n)] : s[1] = 1 /\ \A i \in 2..n : s[i] - s[i-1] \in {0, 1, 2}}

\* row k of a frame of get_records: step s, voltage v (1e-4 V), charging at
\* 2 A or at rest
StepRow(k, s, v, charging) ==
    [record_ID |-> k, cycle |-> 1, step_ID |-> s,
     step_name |-> IF charging THEN "CC_Chg" ELSE "Rest",
     time_in_step |-> 10 * k, voltage_V |-> v,
     current_mA |-> IF charging THEN 2000 ELSE 0,
     capacity_mAh |-> 100 * k, energy_mWh |-> 300 * k, timestamp |-> 3600 * k]

InitStep ==
    /\ \E n \in 1..MaxStepRows :
         \E s \in StepColumns(n), v \in [1..n -> {36000, 41000}],
            c \in [1..n -> BOOLEAN] :
            df_in = [k \in 1..n |-> StepRow(k, s[k], v[k], c[k])]
    /\ df = <<>>
    /\ op = "input"
    /\ args = NoArgs
    /\ verdict = "none"
    /\ DecIdle
    /\ ScanIdle
    /\ NdcIdle
    /\ FsIdle

\* get_step(df)
CallGetStep ==
    /\ op = "input"
    /\ df' = get_step(df_in).df
    /\ verdict' = get_step(df_in).raised
    /\ op' = "get_step"
    /\ UNCHANGED <<df_in, args, decVars, scanVars, ndcVars, fsVars>>

NextStep == CallGetStep

SpecStep == InitStep /\ [][NextStep]_vars

\* the step numbers of the series leave no number out
StepsContiguous ==
    \A i \in 2..Len(df_in) : df_in[i].step_ID - df_in[i-1].step_ID \in {0, 1}

\* the canonical rows of the run of step s
Run(s) == LET InStep(r) == r.Step = s IN SelectSeq(rename(df_in), InStep)

\* C26: for a series whose steps are numbered without a gap get_step
\* returns one row per run of constant Step; the onset voltage, current and
\* date are those of the first row of the run, the terminal voltage, current,
\* date, capacity and energy those of its last row, in value and unit, and
\* the max and min voltage are the extremes over the run.
C26_OneSummaryPerRun ==
    (op = "get_step" /\ StepsContiguous)
    => /\ verdict = "none"
       /\ Len(df) = df_in[Len(df_in)].step_ID
       /\ \A s \in 1..Len(df) :
             LET first == Run(s)[1]
                 last == Run(s)[Len(Run(s))]
             IN  /\ df[s].Onset_Volt = first.Voltage
                 /\ df[s].Starting_current = Micro(first.Current)
                 /\ df[s].Onset_Date = first.Timestamp
                 /\ df[s].End_Voltage = last.Voltage
                 /\ df[s].Termination_current = Micro(last.Current)
                 /\ df[s].End_Date = last.Timestamp
                 /\ df[s].Capacity = Micro(last.Capacity)
                 /\ df[s].Energy = Micro(last.Energy)
                 /\ df[s].Max_Volt = SeqMax(Column(Run(s), "Voltage"))
                 /\ df[s].Min_Volt = SeqMin(Column(Run(s), "Voltage"))

----------------------------------------------------------------------------
(* get_recipe applied to longer series, whose cycles run protocols that    *)
(* match within the tolerance without all matching each other.             *)

MaxGroupCycles == 6

\* charge voltages 4.20 V, 4.24 V and 4.26 V: the first and the last are
\* further apart than the tolerance, each is within it of the middle one;
\* and a protocol with a longer rest, which matches none of them
GroupProtocols ==
    {<<ProtocolStep("Rest", 3600, 600), ProtocolStep("CC_Chg", v, 3600),
       ProtocolStep("CC_Dchg", 2800, 3000)>> : v \in {4200, 4240, 4260}}
    \cup {<<ProtocolStep("Rest", 3600, 900), ProtocolStep("CC_Chg", 4200, 3600),
            ProtocolStep("CC_Dchg", 2800, 3000)>>}

InitGroups ==
    /\ \E n \in 2..MaxGroupCycles : \E protos \in [1..n -> GroupProtocols] :
          df_in = RecipeFrame(protos)
    /\ df = <<>>
    /\ op = "input"
    /\ args = NoArgs
    /\ verdict = "none"
    /\ DecIdle
    /\ ScanIdle
    /\ NdcIdle
    /\ FsIdle

\* get_recipe(df) on the longer series
CallGetRecipeGroups ==
    /\ op = "input"
    /\ \E r \in {get_recipe(df_in)} :
          /\ df' = r.df
          /\ verdict' = r.raised
    /\ op' = "get_recipe"
    /\ UNCHANGED <<df_in, args, decVars, scanVars, ndcVars, fsVars>>

NextGroups == CallGetRecipeGroups

SpecGroups == InitGroups /\ [][NextGroups]_vars

\* the ranges of the result, each with the place it has in the result
AllRanges ==
    {<<g, n>> : g \in 1..Len(df), n \in 1..3 * MaxGroupCycles}
        \cap {p \in (1..Len(df)) \X (1..3 * MaxGroupCycles) :
                  p[2] <= Len(df[p[1]].ranges)}

RangeAt(p) == df[p[1]].ranges[p[2]]

\* C27: no cycle index lies in two ranges of the result of get_recipe, of
\* one group or of two.
C27_RangesDisjoint ==
    (op = "get_recipe" /\ verdict = "none")
    => \A p, q \in AllRanges :
           p # q => (RangeAt(p)[2] < RangeAt(q)[1] \/ RangeAt(q)[2] < RangeAt(p)[1])

\* the cycles run 4.20 V, 4.26 V, the long rest, 4.24 V: the fourth matches
\* the first and the second, which do not match each other, and is put with
\* the first alone
C27_Witness ==
    /\ op = "get_recipe"
    /\ verdict = "none"
    /\ \E g \in 1..Len(df) : df[g].key = 1 /\ df[g].ranges = <<<<1, 1>>, <<4, 4>>>>
    /\ \E g \in 1..Len(df) : df[g].key = 2 /\ df[g].ranges = <<<<2, 2>>>>

----------------------------------------------------------------------------
(* The scan loop of to_df on a file of a given size: where each search for *)
(* the synchronization bytes starts, and that the loop ends.               *)

\* the bytes of the file after the synchronization bytes at their fixed place
MaxTail == 100

\* len(onset): mm[517:525] or mm[4225:4229]
OnsetLen(m) == IF m.offset = 0 THEN 8 ELSE 4

\* the mapped file with its size
Sized(m, n) == [x \in DOMAIN m \cup {"size"} |-> IF x = "size" THEN n ELSE m[x]]

SizedFiles ==
    {Sized(m, m.onset_at + OnsetLen(m) + t) : m \in Files, t \in {0, MaxTail}}

\* the search started again at the record just read
search_from_record(m, h) == h - m.offset

\* line 315: the start argument of mm.find after the record at header
search_from(m, h) == h - m.offset + m.record_len

\* mm.find(onset, start) in a file of m.size bytes: a match lies wholly in
\* the file
FoundFrom(m, start) ==
    {p \in NextMatches(start) : p = -1 \/ p + OnsetLen(m) <= m.size}

\* mm.read(record_len) at pos: the record, cut short at the end of the file
ReadInputs(k, m, pos) ==
    {b \in RecordInputs(k, m) :
        /\ (pos + m.record_len > m.size) <=> (b.length < m.record_len)
        /\ \A f \in {"Index", "Step", "Voltage", "Range", "Current", "Time", "b3"} :
               b[f] = NominalBytes(k)[f]
        /\ b.Status = NominalBytes(k).Status
        /\ b.Date \in {NominalBytes(k).Date, InvalidDate}}

InitSeek ==
    /\ mm \in SizedFiles
    /\ include_aux \in BOOLEAN
    /\ header \in FirstMatches(mm)
    /\ reads = 0
    /\ bytes = NoBytes
    /\ output = <<>>
    /\ aux = <<>>
    /\ warnings = <<>>
    /\ spc = "scan"
    /\ sdf = <<>>
    /\ decoded = NotCalled
    /\ ValIdle
    /\ NdcIdle
    /\ FsIdle

\* one iteration of the while loop (lines 299-315) in the file of m.size bytes
SeekRecord ==
    /\ spc = "scan"
    /\ header # -1
    /\ header - mm.offset >= 0
    /\ \E b \in ReadInputs(reads + 1, mm, header - mm.offset),
          nxt \in FoundFrom(mm, search_from(mm, header)) :
        \E r \in {ScanBody(mm, b, include_aux, output, aux, warnings)} :
            /\ bytes' = b
            /\ reads' = reads + 1
            /\ output' = r.output
            /\ aux' = r.aux
            /\ warnings' = r.warnings
            /\ spc' = IF r.raised = "none" THEN "scan" ELSE "raised"
            /\ header' = IF r.raised = "none" THEN nxt ELSE header
    /\ UNCHANGED <<mm, include_aux, sdf, decoded, valVars, ndcVars, fsVars>>

NextSeek ==
    \/ SeekRaises
    \/ SeekRecord
    \/ ScanFinish

\* the call runs on: no step of to_df waits for anything
SpecSeek == InitSeek /\ [][NextSeek]_vars /\ WF_vars(NextSeek)

\* C28: every search after a record starts, and so finds its match, behind
\* the start of that record and behind the match before it; and on a file of
\* any of the sizes the call ends, returning or raising.
C28_ScanTerminates ==
    /\ [][(reads' = reads + 1 /\ spc' = "scan" /\ header' # -1)
            => (header' > header - mm.offset /\ header' > header)]_vars
    /\ <>(spc \in {"done", "raised"})

\* two records were read, the second one behind the first, and the call
\* has returned
C28_Witness ==
    /\ spc = "done"
    /\ reads >= 2
    /\ header = -1
    /\ Len(output) >= 2

----------------------------------------------------------------------------
(* get_records with drop_cycle_if_gap (lines 426-438), on the Index and    *)
(* Cycle columns of the frame to_df returns: Index increasing, Cycle not   *)
(* decreasing, row labels 0, 1, 2, ... The other columns ride along with   *)
(* their rows, and the renaming after the loop leaves the rows as they are.*)

MaxGapRows == 5

\* line 431: df[df["Index"].diff() > 1].index.values, the labels of the rows
\* whose Index is more than 1 above the Index of the row before
gap_labels(d) ==
    LET P == {p \in 2..Len(d) : d[p].Index - d[p - 1].Index > 1}
    IN  [n \in 1..Cardinality(P) |-> sorted(P)[n] - 1]

\* lines 433-435: prev_cyc is counted down from cyc - 1 until it is in
\* df["Cycle"], which for a Series is a test on the row labels 0..n-1
prev_cyc_of(cyc, n) == IF cyc - 1 <= n - 1 THEN cyc - 1 ELSE n - 1

\* lines 436-438: both drops and the new row labels
drop_cycles(d, cyc, prev_cyc) ==
    LET Kept(r) == r.Cycle # cyc /\ r.Cycle # prev_cyc
    IN  SelectSeq(d, Kept)

RECURSIVE drop_loop(_, _, _)
\* lines 431-438 from the k-th label on: df.at[i, "Cycle"] raises KeyError
\* for a label the frame no longer has; for a cycle below 1 the count-down
\* finds no label
drop_loop(d, labels, k) ==
    IF k > Len(labels) THEN [raised |-> "none", df |-> d]
    ELSE IF labels[k] >= Len(d) THEN [raised |-> "KeyError", df |-> d]
    ELSE IF d[labels[k] + 1].Cycle < 1 THEN [raised |-> "no end", df |-> d]
    ELSE drop_loop(drop_cycles(d, d[labels[k] + 1].Cycle,
                               prev_cyc_of(d[labels[k] + 1].Cycle, Len(d))),
                   labels, k + 1)

\* get_records(file, drop_cycle_if_gap=flag) on the frame d of to_df
get_records_gap(d, flag) ==
    IF flag THEN drop_loop(d, gap_labels(d), 1) ELSE [raised |-> "none", df |-> d]

RECURSIVE StepsUp(_, _)
\* the value that starts at 1 and goes up by the first p steps of s
StepsUp(s, p) == IF p = 0 THEN 1 ELSE StepsUp(s, p - 1) + s[p]

\* the frames of to_df: Index from 1 on with steps of 1 or 2, Cycle from 1
\* on with steps of 0, 1 or 2
InitGaps ==
    /\ \E n \in 1..MaxGapRows :
        \E di \in [1..(n - 1) -> {1, 2}], dc \in [1..(n - 1) -> {0, 1, 2}] :
          df_in = [p \in 1..n |->
                     [Index |-> StepsUp(di, p - 1), Cycle |-> StepsUp(dc, p - 1)]]
    /\ df = <<>>
    /\ op = "input"
    /\ args = NoArgs
    /\ verdict = "none"
    /\ DecIdle
    /\ ScanIdle
    /\ NdcIdle
    /\ FsIdle

\* get_records(file, drop_cycle_if_gap=flag)
CallGetRecordsGap ==
    /\ op = "input"
    /\ \E flag \in BOOLEAN : \E r \in {get_records_gap(df_in, flag)} :
          /\ df' = r.df
          /\ verdict' = r.raised
          /\ args' = [drop_cycle_if_gap |-> flag]
    /\ op' = "get_records"
    /\ UNCHANGED <<df_in, decVars, scanVars, ndcVars, fsVars>>

NextGaps == CallGetRecordsGap

SpecGaps == InitGaps /\ [][NextGaps]_vars

\* the positions of df_in where Index jumps by more than 1
Jumps == {p \in 2..Len(df_in) : df_in[p].Index - df_in[p - 1].Index > 1}

\* the cycles of the rows of a frame
CyclesOf(d) == {d[p].Cycle : p \in 1..Len(d)}

\* the cycle of c and the nearest cycle before it among the cycles S
WithPreceding(c, S) ==
    {c} \cup (IF \E x \in S : x < c THEN {SetMax({x \in S : x < c})} ELSE {})

\* the cycles to remove, the preceding cycle looked for in the data as read
RemovedOfData ==
    UNION {WithPreceding(df_in[p].Cycle, CyclesOf(df_in)) : p \in Jumps}

RECURSIVE RemovedInTurn(_, _)
\* the cycles to remove, the jumps taken in turn and the preceding cycle
\* looked for in what the jumps before have left
RemovedInTurn(todo, gone) ==
    IF todo = {} THEN gone
    ELSE LET p == SetMin(todo)
         IN  RemovedInTurn(todo \ {p},
                 gone \cup WithPreceding(df_in[p].Cycle,
                                         (CyclesOf(df_in) \ gone) \cup {df_in[p].Cycle}))

Without(S) == LET Kept(r) == r.Cycle \notin S IN SelectSeq(df_in, Kept)

\* C29: get_records with drop_cycle_if_gap returns, and returns the rows of
\* the data without the rows of the cycle of each jump of Index and of the
\* nearest cycle before it that the data has.
C29_GapCyclesDropped ==
    (op = "get_records" /\ args.drop_cycle_if_gap)
        => /\ verdict = "none"
           /\ df \in {Without(RemovedOfData), Without(RemovedInTurn(Jumps, {}))}

----------------------------------------------------------------------------
(* parser_improve/database.py, DatabaseManager.execute_bulk_insert: the    *)
(* rows of data go to the server in batches inside one transaction. The    *)
(* server keeps the rows of an open transaction with the connection that   *)
(* opened it and drops them when that connection ends without a commit.    *)

MaxBulkRows == 3

\* lines 320-322: data[i : i + batch_size] for i in range(0, len(data), batch_size)
batches_of(data, batch_size) ==
    [k \in 1..((Len(data) + batch_size - 1) \div batch_size) |->
        SubSeq(data, (k - 1) * batch_size + 1,
               IF k * batch_size <= Len(data) THEN k * batch_size ELSE Len(data))]

\* what the server answers to the executemany of a batch: "ok"; "error", an
\* error other than a lost connection; "lost", OperationalError "Lost
\* connection", followed by what get_connection and the retry give
BatchOutcomes == {"ok", "error", "lost, no connection", "lost, retry error", "lost, retry ok"}

RECURSIVE bulk_loop(_, _, _, _)
\* lines 320-340 from batch k on: pending is the rows sent in the open
\* transaction of the connection in use
bulk_loop(batches, k, outcome, pending) ==
    IF k > Len(batches) THEN [raised |-> "none", pending |-> pending]
    ELSE CASE outcome[k] = "ok" ->
                bulk_loop(batches, k + 1, outcome, pending \o batches[k])
           [] outcome[k] = "error" ->
                [raised |-> "Error", pending |-> pending]
           \* lines 328-335: the connection is closed, and with it go the rows
           \* sent on it; the batch is sent again on a new connection
           [] outcome[k] = "lost, no connection" ->
                [raised |-> "ConnectionPoolError", pending |-> <<>>]
           [] outcome[k] = "lost, retry error" ->
                [raised |-> "Error", pending |-> batches[k]]
           [] outcome[k] = "lost, retry ok" ->
                bulk_loop(batches, k + 1, outcome, batches[k])

\* execute_bulk_insert(query, data, batch_size) with the answers env of the
\* server: [raised |-> the exception, committed |-> the rows the call has
\* added to the table]
execute_bulk_insert(data, batch_size, env) ==
    IF data = <<>> THEN [raised |-> "none", committed |-> <<>>]
    \* lines 286-316: get_connection, the session settings, start_transaction
    ELSE IF env.session = "error" THEN [raised |-> "Error", committed |-> <<>>]
    ELSE LET r == bulk_loop(batches_of(data, batch_size), 1, env.batch, <<>>)
         IN  \* lines 347-354: rollback
             IF r.raised # "none" THEN [raised |-> r.raised, committed |-> <<>>]
             \* line 343
             ELSE IF env.commit = "error" THEN [raised |-> "Error", committed |-> <<>>]
             ELSE [raised |-> "none", committed |-> r.pending]

InitBulk ==
    /\ \E n \in 0..MaxBulkRows : df_in = [p \in 1..n |-> p]
    /\ df = <<>>
    /\ op = "input"
    /\ args = NoArgs
    /\ verdict = "none"
    /\ DecIdle
    /\ ScanIdle
    /\ NdcIdle
    /\ FsIdle

\* db.execute_bulk_insert(query, data, batch_size)
CallExecuteBulkInsert ==
    /\ op = "input"
    /\ \E batch_size \in 1..2, session \in {"ok", "error"}, commit \in {"ok", "error"} :
       \E outcome \in [1..((Len(df_in) + batch_size - 1) \div batch_size) -> BatchOutcomes] :
       \E env \in {[session |-> session, batch |-> outcome, commit |-> commit]} :
       \E r \in {execute_bulk_insert(df_in, batch_size, env)} :
          /\ df' = r.committed
          /\ verdict' = r.raised
          /\ args' = [batch_size |-> batch_size, env |-> env]
    /\ op' = "execute_bulk_insert"
    /\ UNCHANGED <<df_in, decVars, scanVars, ndcVars, fsVars>>

NextBulk == CallExecuteBulkInsert

SpecBulk == InitBulk /\ [][NextBulk]_vars

\* C30: after execute_bulk_insert has returned the table has every row of
\* data, and after it has raised the table has none of them, whatever the
\* server answers, a lost connection with a retry on a new one included.
C30_BulkInsertAllOrNothing ==
    op = "execute_bulk_insert"
        => /\ verdict = "none" => df = df_in
           /\ verdict # "none" => df = <<>>

====
